---------------------------- MODULE Spec2Model ----------------------------
(***************************************************************************)
(* A model of the gym tracker bot: the exercise catalog, the per-user      *)
(* progress store with its JSON file, the volume aggregation, the overload *)
(* callback flow of the Telegram bot and the Google-Sheets log sink.       *)
(*                                                                         *)
(* Python strings are TLA+ strings (Len, SubSeq, Head, Tail and \o work on *)
(* them).  Optional[T] is <<>> for None and <<v>> for a value v.           *)
(***************************************************************************)
EXTENDS Integers, Sequences, FiniteSets, TLC

VARIABLES
    user_states,   \* UserStateManager.user_states: telegram_id -> UserState
    disk,          \* the JSON file at storage_path
    storage_ok,    \* whether the file system accepts a write
    ret,           \* the value the last operation returned (None when it returns nothing)
    screen,        \* the overload message as Telegram last rendered it
    out,           \* what the last handler sent: toast, edit, reply, prompts to the agent
    worksheet,     \* column A of the sheet (None when not connected)
    cell_writes,   \* the update_cell calls issued so far by the last log_workout
    log_result,    \* what the last log_workout returned (Optional[bool])
    request,       \* the call or update being handled: operation and arguments
    nops,          \* how many operations or events the run has handled
    tasks          \* the callback handlers started so far, each where it is suspended

vars == <<user_states, disk, storage_ok, ret, screen, out, worksheet,
          cell_writes, log_result, request, nops, tasks>>

storeVars == <<user_states, disk, storage_ok, ret>>
botVars   == <<screen, out>>
sheetVars == <<worksheet, cell_writes, log_result>>

None == <<>>
Some(v) == <<v>>

Max(a, b) == IF a >= b THEN a ELSE b
Min(a, b) == IF a <= b THEN a ELSE b

(***************************************************************************)
(* Python's str operations                                                 *)
(***************************************************************************)
UpperChars == "ABCDEFGHIJKLMNOPQRSTUVWXYZ"
LowerChars == "abcdefghijklmnopqrstuvwxyz"

CharAt(s, i) == SubSeq(s, i, i)

\* the letters str.lower() and str.upper() change (ASCII)
LowerOf == [c \in {CharAt(UpperChars, i) : i \in 1..Len(UpperChars)} |->
               CharAt(LowerChars, CHOOSE i \in 1..Len(UpperChars) : CharAt(UpperChars, i) = c)]
UpperOf == [c \in {CharAt(LowerChars, i) : i \in 1..Len(LowerChars)} |->
               CharAt(UpperChars, CHOOSE i \in 1..Len(LowerChars) : CharAt(LowerChars, i) = c)]

\* str.lower() on one character
lower_char(c) == IF c \in DOMAIN LowerOf THEN LowerOf[c] ELSE c

\* str.upper() on one character
upper_char(c) == IF c \in DOMAIN UpperOf THEN UpperOf[c] ELSE c

\* the characters of s from position i on, lower-cased
RECURSIVE lower_from(_, _)
lower_from(s, i) ==
    IF i > Len(s) THEN "" ELSE lower_char(CharAt(s, i)) \o lower_from(s, i + 1)

lower(s) == lower_from(s, 1)

\* the characters of s from position i on, upper-cased
RECURSIVE upper_from(_, _)
upper_from(s, i) ==
    IF i > Len(s) THEN "" ELSE upper_char(CharAt(s, i)) \o upper_from(s, i + 1)

upper(s) == upper_from(s, 1)

\* a in b
contains(a, b) ==
    \E i \in 0..(Len(b) - Len(a)) : SubSeq(b, i + 1, i + Len(a)) = a

\* s.startswith(p)
startswith(s, p) == Len(s) >= Len(p) /\ SubSeq(s, 1, Len(p)) = p

\* s[:n]
slice(s, n) == SubSeq(s, 1, Min(n, Len(s)))

\* s.replace(old, ""): every non-overlapping occurrence, left to right
RECURSIVE remove_all(_, _)
remove_all(s, old) ==
    IF s = "" THEN ""
    ELSE IF startswith(s, old)
         THEN remove_all(SubSeq(s, Len(old) + 1, Len(s)), old)
         ELSE Head(s) \o remove_all(Tail(s), old)

\* s.split(":")
RECURSIVE split_colon(_)
split_colon(s) ==
    IF ~contains(":", s) THEN <<s>>
    ELSE LET i == CHOOSE j \in 1..Len(s) :
                    /\ CharAt(s, j) = ":"
                    /\ \A k \in 1..(j - 1) : CharAt(s, k) # ":"
         IN <<SubSeq(s, 1, i - 1)>> \o split_colon(SubSeq(s, i + 1, Len(s)))

Digits == "0123456789"

\* str(n) for n >= 0
RECURSIVE str(_)
str(n) == IF n < 10 THEN CharAt(Digits, n + 1)
          ELSE str(n \div 10) \o CharAt(Digits, (n % 10) + 1)

DigitVal(c) == (CHOOSE i \in 1..10 : CharAt(Digits, i) = c) - 1

\* int(s) for a string of decimal digits
RECURSIVE int(_)
int(s) == IF Len(s) = 1 THEN DigitVal(s)
          ELSE 10 * int(SubSeq(s, 1, Len(s) - 1)) + DigitVal(CharAt(s, Len(s)))

\* s.strip(), for the blank character
RECURSIVE strip(_)
strip(s) ==
    IF s = "" THEN s
    ELSE IF CharAt(s, 1) = " " THEN strip(SubSeq(s, 2, Len(s)))
    ELSE IF CharAt(s, Len(s)) = " " THEN strip(SubSeq(s, 1, Len(s) - 1))
    ELSE s

DigitChars == {CharAt(Digits, i) : i \in 1..10}

\* int(s) of a str: blanks around, a sign, decimal digits with single
\* underscores between them; None stands for ValueError
parse_int(s) ==
    LET t == strip(s)
        signed == t # "" /\ CharAt(t, 1) \in {"+", "-"}
        body == IF signed THEN SubSeq(t, 2, Len(t)) ELSE t
    IN IF \/ body = ""
          \/ \E i \in 1..Len(body) : CharAt(body, i) \notin DigitChars \cup {"_"}
          \/ CharAt(body, 1) = "_"
          \/ CharAt(body, Len(body)) = "_"
          \/ contains("__", body)
       THEN None
       ELSE LET n == int(remove_all(body, "_"))
            IN Some(IF signed /\ CharAt(t, 1) = "-" THEN 0 - n ELSE n)

\* the length of the longest prefix of s made of characters of chars
RECURSIVE span(_, _)
span(s, chars) ==
    IF s = "" \/ CharAt(s, 1) \notin chars THEN 0
    ELSE 1 + span(SubSeq(s, 2, Len(s)), chars)

\* s without its first n characters
drop(s, n) == SubSeq(s, n + 1, Len(s))

\* float(s) in hundredths, for blanks around, a sign, digits and up to two
\* decimals (exponents, inf and nan are left out); None stands for
\* ValueError
parse_float(s) ==
    LET t == strip(s)
        signed == t # "" /\ CharAt(t, 1) \in {"+", "-"}
        body == IF signed THEN drop(t, 1) ELSE t
        n1 == span(body, DigitChars)
        rest == drop(body, n1)
        frac == IF rest # "" /\ CharAt(rest, 1) = "." THEN drop(rest, 1) ELSE ""
        n2 == span(frac, DigitChars)
        whole == IF n1 = 0 THEN 0 ELSE int(SubSeq(body, 1, n1))
        cents == IF n2 = 0 THEN 0
                 ELSE IF n2 = 1 THEN 10 * int(frac)
                 ELSE int(SubSeq(frac, 1, 2))
        value == 100 * whole + cents
    IN IF \/ n1 + n2 = 0
          \/ rest # "" /\ CharAt(rest, 1) # "."
          \/ n2 # Len(frac)
          \/ n2 > 2
       THEN None
       ELSE Some(IF signed /\ CharAt(t, 1) = "-" THEN 0 - value ELSE value)

\* the sum of f over the finite set S
RECURSIVE SumOver(_, _)
SumOver(S, f) ==
    IF S = {} THEN 0
    ELSE LET x == CHOOSE y \in S : TRUE IN f[x] + SumOver(S \ {x}, f)


(***************************************************************************)
(* Bounds of the model                                                     *)
(***************************************************************************)
\* increments are explored while the new set count stays within MaxSets
MaxSets == 5

\* a run of the store handles at most MaxOps operations
MaxOps == 3

\* a run of the bot handles at most MaxEvents events
MaxEvents == 3

\* a run of the log sink logs at most MaxLogs workouts
MaxLogs == 1

\* the telegram ids of the users that send events
Users == {5, 12}

(***************************************************************************)
(* Exercise catalog (src/database/exercise_db.py)                          *)
(***************************************************************************)
any_keyword(name_lower, keywords) == \E k \in keywords : contains(k, name_lower)

_categorize_exercise(name) ==
    LET name_lower == lower(name) IN
    IF any_keyword(name_lower, {"vuelos", "laterales", "hombro", "shoulder",
                                "deltoides", "face pulls"})
    THEN "Shoulders"
    ELSE IF any_keyword(name_lower, {"press", "banca", "bench", "pec", "mariposa",
                                     "aperturas", "pecho", "chest"})
    THEN "Chest"
    ELSE IF any_keyword(name_lower, {"dorsal", "remo", "row", "dominadas", "pull",
                                     "espalda", "back"})
    THEN "Back"
    ELSE IF any_keyword(name_lower, {"curl", "bíceps", "biceps", "bicep"})
    THEN "Biceps"
    ELSE IF any_keyword(name_lower, {"tríceps", "triceps", "extensión", "extension"})
    THEN "Triceps"
    ELSE IF any_keyword(name_lower, {"zancadas", "lunge", "femoral", "cuádriceps",
                                     "quadriceps", "hacka", "hack", "squat", "glúteo",
                                     "glute", "aductores", "peso muerto", "deadlift",
                                     "rdl", "piernas", "legs"})
    THEN "Legs"
    ELSE "Other"

\* the Exercise dataclass as _load_exercises builds it
Exercise(name, day, default_sets, default_rep_range, default_weight, category) ==
    [name |-> name, day |-> day, default_sets |-> default_sets,
     default_rep_range |-> default_rep_range, default_weight |-> default_weight,
     category |-> category]

\* _parse_sets_reps: re.match(r"(\d+)\s*x\s*([\d\-]+)") on the stripped
\* field, a match at the start of the text with anything after it
_parse_sets_reps(sets_reps) ==
    LET s == strip(sets_reps)
        n1 == span(s, DigitChars)
        after_sets == drop(s, n1)
        at_x == drop(after_sets, span(after_sets, {" "}))
        after_x == drop(at_x, 1)
        at_reps == drop(after_x, span(after_x, {" "}))
        n2 == span(at_reps, DigitChars \cup {"-"})
    IN IF n1 > 0 /\ at_x # "" /\ CharAt(at_x, 1) = "x" /\ n2 > 0
       THEN [sets |-> int(SubSeq(s, 1, n1)), reps |-> SubSeq(at_reps, 1, n2)]
       ELSE [sets |-> 3, reps |-> "8-12"]

\* re.search(r"Dia\s*(\d+)", text): the number of the first "Dia" that has
\* one, or None
day_match(text) ==
    LET NumberAt(i) == LET after == drop(text, i + 2)
                           digits == drop(after, span(after, {" "}))
                       IN SubSeq(digits, 1, span(digits, DigitChars))
        hits == {i \in 1..Len(text) : /\ startswith(drop(text, i - 1), "Dia")
                                      /\ NumberAt(i) # ""}
    IN IF hits = {} THEN None
       ELSE Some(int(NumberAt(CHOOSE i \in hits : \A j \in hits : i <= j)))

\* the catalog while the rows are read: the dict as keys and values in
\* insertion order, the day of the last marker, and whether the load raised
\* (exercises_by_day, here by_day, has the keys 1..4 only)
NoCatalog ==
    [keys |-> <<>>, values |-> <<>>, by_day |-> [d \in 1..4 |-> <<>>],
     current_day |-> None, raised |-> FALSE]

\* self.exercises[key] = exercise
catalog_put(cat, key, exercise) ==
    IF \E i \in 1..Len(cat.keys) : cat.keys[i] = key
    THEN [cat EXCEPT !.values[CHOOSE i \in 1..Len(cat.keys) : cat.keys[i] = key] = exercise]
    ELSE [cat EXCEPT !.keys = Append(@, key), !.values = Append(@, exercise)]

\* one turn of the loop of _load_exercises
load_row(cat, row) ==
    IF cat.raised \/ row = <<>> \/ row[1] = "" THEN cat
    ELSE IF startswith(row[1], "Dia")
    THEN IF day_match(row[1]) = None THEN cat
         ELSE [cat EXCEPT !.current_day = day_match(row[1])]
    ELSE IF cat.current_day = None \/ strip(row[1]) = "" THEN cat
    ELSE LET exercise_name == strip(row[1])
             weight == IF Len(row) > 2 /\ row[3] # "" THEN parse_float(row[3]) ELSE None
             parsed == _parse_sets_reps(IF Len(row) > 3 THEN row[4] ELSE "3 x 8-12")
             exercise == Exercise(exercise_name, cat.current_day[1], parsed.sets,
                                  parsed.reps, weight, _categorize_exercise(exercise_name))
             stored == catalog_put(cat, lower(exercise_name), exercise)
         IN IF cat.current_day[1] \in 1..4
            THEN [stored EXCEPT !.by_day[cat.current_day[1]] = Append(@, exercise)]
            ELSE [stored EXCEPT !.raised = TRUE]

\* _load_exercises on the rows of the file: the first two rows are skipped
RECURSIVE load_rows(_, _, _)
load_rows(cat, rows, i) ==
    IF i > Len(rows) THEN cat ELSE load_rows(load_row(cat, rows[i]), rows, i + 1)

_load_exercises(rows) == load_rows(NoCatalog, rows, 3)

\* get_exercises_for_day and get_all_exercises of a loaded catalog
exercises_for_day(cat, day) == IF day \in 1..4 THEN cat.by_day[day] ELSE <<>>

all_exercises(cat) == cat.values

\* ExerciseDatabase.exercises in dict (insertion) order; the key of an entry
\* is lower(name).  The program table itself (data/exercises.csv) is input
\* data: this is a small table with a name that is a prefix of another and
\* a name longer than the 30 characters a token keeps.  The categories are
\* those _categorize_exercise gives the names (CatalogCategorized).
exercises ==
    << Exercise("Press banca", 1, 3, "6-10", None, "Chest"),
       Exercise("Curl martillo", 2, 1, "10-15", None, "Biceps"),
       Exercise("Press banca inclinado con mancuernas", 3, 2, "8-12", None, "Chest") >>

ExIdx == 1..Len(exercises)

\* the keys of self.exercises, computed once when the catalog is loaded
exercise_keys ==
    << "press banca", "curl martillo", "press banca inclinado con mancuernas" >>

\* every key is its exercise's name lower-cased
CatalogKeyed ==
    /\ Len(exercise_keys) = Len(exercises)
    /\ \A i \in ExIdx : exercise_keys[i] = lower(exercises[i].name)

\* every entry carries the category _load_exercises computes for its name
CatalogCategorized ==
    \A i \in ExIdx : exercises[i].category = _categorize_exercise(exercises[i].name)

get_all_exercises == exercises

\* the first index of I in iteration order (0 when I is empty)
FirstIdx(I) == IF I = {} THEN 0 ELSE CHOOSE i \in I : \A j \in I : i <= j

\* find_exercise without the exact-match step
find_exercise_partial_only(query) ==
    LET query_lower == lower(query)
        partial == {i \in ExIdx : \/ contains(query_lower, exercise_keys[i])
                                  \/ contains(exercise_keys[i], query_lower)}
    IN IF FirstIdx(partial) # 0 THEN Some(exercises[FirstIdx(partial)]) ELSE None

find_exercise(query) ==
    LET query_lower == lower(query)
        Exact(i) == exercise_keys[i] = query_lower
        Partial(i) == \/ contains(query_lower, exercise_keys[i])
                      \/ contains(exercise_keys[i], query_lower)
        partial == {i \in ExIdx : Partial(i)}
    IN IF \E i \in ExIdx : Exact(i)
       THEN Some(exercises[CHOOSE i \in ExIdx : Exact(i)])
       ELSE IF FirstIdx(partial) # 0
            THEN Some(exercises[FirstIdx(partial)])
            ELSE None

_map_category_to_muscle(category) ==
    CASE category = "Shoulders" -> "Deltoides"
      [] category = "Chest"     -> "Pecho"
      [] category = "Back"      -> "Dorsal ancho"
      [] category = "Biceps"    -> "Bíceps"
      [] category = "Triceps"   -> "Tríceps"
      [] category = "Legs"      -> "Piernas"
      [] category = "Other"     -> "Otros"
      [] OTHER                  -> category

\* _reverse_muscle_mapping whose table spells two names without their accent
_reverse_muscle_mapping_unaccented(muscle_name) ==
    CASE muscle_name = "Deltoides"    -> "Shoulders"
      [] muscle_name = "Pecho"        -> "Chest"
      [] muscle_name = "Dorsal ancho" -> "Back"
      [] muscle_name = "Biceps"       -> "Biceps"
      [] muscle_name = "Triceps"      -> "Triceps"
      [] muscle_name = "Piernas"      -> "Legs"
      [] muscle_name = "Otros"        -> "Other"
      [] OTHER                        -> muscle_name

_reverse_muscle_mapping(muscle_name) ==
    CASE muscle_name = "Deltoides"    -> "Shoulders"
      [] muscle_name = "Pecho"        -> "Chest"
      [] muscle_name = "Dorsal ancho" -> "Back"
      [] muscle_name = "Bíceps"       -> "Biceps"
      [] muscle_name = "Tríceps"      -> "Triceps"
      [] muscle_name = "Piernas"      -> "Legs"
      [] muscle_name = "Otros"        -> "Other"
      [] OTHER                        -> muscle_name

(***************************************************************************)
(* UserState (src/models/exercise.py)                                      *)
(***************************************************************************)
\* UserState(telegram_id=...) with the dataclass defaults
NewUserState(telegram_id) ==
    [telegram_id |-> telegram_id, current_week |-> 1, current_day |-> None,
     split_configured |-> FALSE, custom_exercise_sets |-> <<>>]

\* increment_week without the wrap after week 6
UserState_increment_week_nowrap(state) ==
    [state EXCEPT !.current_week = state.current_week + 1]

UserState_increment_week(state) ==
    [state EXCEPT !.current_week = (state.current_week % 6) + 1]

\* dict.get(key, default)
dict_get(d, key, default) == IF key \in DOMAIN d THEN d[key] ELSE default

\* get_exercise_sets that looks the name up as written, without lower()
get_exercise_sets_nofold(state, exercise) ==
    dict_get(state.custom_exercise_sets, exercise.name, exercise.default_sets)

get_exercise_sets(state, exercise) ==
    dict_get(state.custom_exercise_sets, lower(exercise.name), exercise.default_sets)

\* d[key] = value
dict_set(d, key, value) ==
    [k \in DOMAIN d \cup {key} |-> IF k = key THEN value ELSE d[k]]

\* set_exercise_sets that keeps the name as written
set_exercise_sets_asis(state, exercise_name, sets) ==
    [state EXCEPT !.custom_exercise_sets = dict_set(@, exercise_name, sets)]

set_exercise_sets(state, exercise_name, sets) ==
    [state EXCEPT !.custom_exercise_sets = dict_set(@, lower(exercise_name), sets)]

(***************************************************************************)
(* UserStateManager (src/database/user_state_manager.py)                   *)
(*                                                                         *)
(* The file holds JSON text: a number is the string of its digits, None is *)
(* null, a bool is true or false, and the top-level keys are str(id).      *)
(***************************************************************************)
NoFile == [exists |-> FALSE, parses |-> TRUE, data |-> <<>>]

json_int(n) == str(n)
json_opt_int(v) == IF v = None THEN "null" ELSE str(v[1])
json_bool(b) == IF b THEN "true" ELSE "false"

py_int(t) == int(t)
\* reading current_day with a fallback of day 1 for null
py_opt_int_or1(t) == IF t = "null" THEN Some(1) ELSE Some(int(t))

py_opt_int(t) == IF t = "null" THEN None ELSE Some(int(t))
py_bool(t) == t = "true"

\* the dict _save_states dumps
dump_states(states) ==
    [key \in {str(t) : t \in DOMAIN states} |->
        LET state == states[CHOOSE t \in DOMAIN states : str(t) = key] IN
        [current_week |-> json_int(state.current_week),
         current_day |-> json_opt_int(state.current_day),
         split_configured |-> json_bool(state.split_configured),
         custom_exercise_sets |->
             [n \in DOMAIN state.custom_exercise_sets |->
                 json_int(state.custom_exercise_sets[n])]]]

\* the file after _save_states: rewritten whole, or left as it was when the
\* write raises (the exception is printed and swallowed)
_save_states(states, file) ==
    IF storage_ok THEN [exists |-> TRUE, parses |-> TRUE, data |-> dump_states(states)]
    ELSE file

\* json.load or int(telegram_id_str) raises: the text is not JSON, or a
\* top-level key is not an integer
load_raises(file) ==
    \/ ~file.parses
    \/ \E k \in DOMAIN file.data : parse_int(k) = None

\* _load_states that keeps the records of the numeric keys when another key
\* makes int() raise
_load_states_keeps_decoded(file) ==
    IF ~file.exists \/ ~file.parses THEN <<>>
    ELSE LET keys == {k \in DOMAIN file.data : parse_int(k) # None} IN
         [t \in {parse_int(k)[1] : k \in keys} |->
            LET state_data == file.data[CHOOSE k \in keys : parse_int(k)[1] = t] IN
            [telegram_id |-> t,
             current_week |-> py_int(state_data.current_week),
             current_day |-> py_opt_int(state_data.current_day),
             split_configured |-> py_bool(state_data.split_configured),
             custom_exercise_sets |->
                 [n \in DOMAIN state_data.custom_exercise_sets |->
                     py_int(state_data.custom_exercise_sets[n])]]]

\* user_states after _load_states on a fresh manager; when anything raises
\* the except branch drops the records decoded so far
_load_states(file) ==
    IF ~file.exists THEN <<>>
    ELSE IF load_raises(file) THEN <<>>
    ELSE [t \in {parse_int(k)[1] : k \in DOMAIN file.data} |->
            LET state_data == file.data[CHOOSE k \in DOMAIN file.data : parse_int(k)[1] = t] IN
            [telegram_id |-> t,
             current_week |-> py_int(state_data.current_week),
             current_day |-> py_opt_int(state_data.current_day),
             split_configured |-> py_bool(state_data.split_configured),
             custom_exercise_sets |->
                 [n \in DOMAIN state_data.custom_exercise_sets |->
                     py_int(state_data.custom_exercise_sets[n])]]]

\* The manager as a value: its dict and its file.
Store == [user_states |-> user_states, disk |-> disk]

\* self.user_states[key] = state
put_state(states, key, state) ==
    [t \in DOMAIN states \cup {key} |-> IF t = key THEN state ELSE states[t]]

\* get_user_state: the manager afterwards (the state is .user_states[id])
\* get_user_state that creates the record and does not save it
get_user_state_nosave(S, telegram_id) ==
    IF telegram_id \notin DOMAIN S.user_states
    THEN [user_states |-> put_state(S.user_states, telegram_id, NewUserState(telegram_id)),
          disk |-> S.disk]
    ELSE S

get_user_state(S, telegram_id) ==
    IF telegram_id \notin DOMAIN S.user_states
    THEN LET us == put_state(S.user_states, telegram_id, NewUserState(telegram_id))
         IN [user_states |-> us, disk |-> _save_states(us, S.disk)]
    ELSE S

\* update_user_state that forgets to save
update_user_state_nosave(S, state) ==
    [user_states |-> put_state(S.user_states, state.telegram_id, state), disk |-> S.disk]

\* update_user_state whose save writes the record of that user alone
update_user_state_own_record(S, state) ==
    [user_states |-> put_state(S.user_states, state.telegram_id, state),
     disk |-> _save_states((state.telegram_id :> state), S.disk)]

update_user_state(S, state) ==
    LET us == put_state(S.user_states, state.telegram_id, state)
    IN [user_states |-> us, disk |-> _save_states(us, S.disk)]

set_current_day(S, telegram_id, day) ==
    LET S1 == get_user_state(S, telegram_id)
        state == [S1.user_states[telegram_id] EXCEPT !.current_day = Some(day)]
    IN update_user_state(S1, state)

set_current_week(S, telegram_id, week) ==
    LET S1 == get_user_state(S, telegram_id)
        state == [S1.user_states[telegram_id] EXCEPT !.current_week = week]
    IN update_user_state(S1, state)

configure_split(S, telegram_id) ==
    LET S1 == get_user_state(S, telegram_id)
        state == [S1.user_states[telegram_id] EXCEPT !.split_configured = TRUE]
    IN update_user_state(S1, state)

increment_week(S, telegram_id) ==
    LET S1 == get_user_state(S, telegram_id)
        state == UserState_increment_week(S1.user_states[telegram_id])
    IN update_user_state(S1, state)

\* reset_user that replaces the record in memory and leaves the file alone
reset_user_nosave(S, telegram_id) ==
    [user_states |-> put_state(S.user_states, telegram_id, NewUserState(telegram_id)),
     disk |-> S.disk]

reset_user(S, telegram_id) ==
    LET us == put_state(S.user_states, telegram_id, NewUserState(telegram_id))
    IN [user_states |-> us, disk |-> _save_states(us, S.disk)]


(***************************************************************************)
(* Volume aggregation (src/database/exercise_db.py)                        *)
(***************************************************************************)
\* a sort by key that is not stable: items of equal key come out last first
sorted_by_ties_reversed(seq, key) ==
    LET n == Len(seq)
        pos(i) == Cardinality({j \in 1..n : key[j] < key[i]})
                  + Cardinality({j \in (i + 1)..n : key[j] = key[i]}) + 1
    IN [p \in 1..n |-> seq[CHOOSE i \in 1..n : pos(i) = p]]

\* sorted(seq, key=...) of Python: stable, ascending in the integer key
sorted_by(seq, key) ==
    LET n == Len(seq)
        pos(i) == Cardinality({j \in 1..n : key[j] < key[i]})
                  + Cardinality({j \in 1..(i - 1) : key[j] = key[i]}) + 1
    IN [p \in 1..n |-> seq[CHOOSE i \in 1..n : pos(i) = p]]

\* volumes_after assigning where the loop adds (= for +=)
RECURSIVE volumes_last_wins(_, _)
volumes_last_wins(state, n) ==
    IF n = 0 THEN <<>>
    ELSE LET volumes == volumes_last_wins(state, n - 1)
             exercise == get_all_exercises[n]
             sets == get_exercise_sets(state, exercise)
             muscle_name == _map_category_to_muscle(exercise.category)
         IN IF \E i \in 1..Len(volumes) : volumes[i].muscle = muscle_name
            THEN [i \in 1..Len(volumes) |->
                    IF volumes[i].muscle = muscle_name
                    THEN [muscle |-> muscle_name, sets |-> sets]
                    ELSE volumes[i]]
            ELSE Append(volumes, [muscle |-> muscle_name, sets |-> 0 + sets])

\* the volumes dict after the first n exercises of the loop, in insertion order
RECURSIVE volumes_after(_, _)
volumes_after(state, n) ==
    IF n = 0 THEN <<>>
    ELSE LET volumes == volumes_after(state, n - 1)
             exercise == get_all_exercises[n]
             sets == get_exercise_sets(state, exercise)
             muscle_name == _map_category_to_muscle(exercise.category)
         IN IF \E i \in 1..Len(volumes) : volumes[i].muscle = muscle_name
            THEN [i \in 1..Len(volumes) |->
                    IF volumes[i].muscle = muscle_name
                    THEN [muscle |-> muscle_name, sets |-> volumes[i].sets + sets]
                    ELSE volumes[i]]
            ELSE Append(volumes, [muscle |-> muscle_name, sets |-> 0 + sets])

NegSets(v) == 0 - v.sets

\* the dict returned, as its items in order (sorted by volume, descending)
calculate_muscle_group_volumes(state) ==
    LET volumes == volumes_after(state, Len(get_all_exercises))
    IN sorted_by(volumes, [i \in 1..Len(volumes) |-> NegSets(volumes[i])])

get_muscle_groups(state) == calculate_muscle_group_volumes(state)

DayOf(x) == x.day

\* get_exercises_by_muscle that pairs every exercise with its default sets
get_exercises_by_muscle_defaults(muscle_group, state) ==
    LET category == _reverse_muscle_mapping(muscle_group)
        hits == SelectSeq(get_all_exercises, LAMBDA e : e.category = category)
        rows == [i \in 1..Len(hits) |->
                    [exercise |-> hits[i], sets |-> hits[i].default_sets, day |-> hits[i].day]]
    IN sorted_by(rows, [i \in 1..Len(rows) |-> DayOf(rows[i])])

get_exercises_by_muscle(muscle_group, state) ==
    LET category == _reverse_muscle_mapping(muscle_group)
        hits == SelectSeq(get_all_exercises, LAMBDA e : e.category = category)
        rows == [i \in 1..Len(hits) |->
                    [exercise |-> hits[i],
                     sets |-> get_exercise_sets(state, hits[i]),
                     day |-> hits[i].day]]
    IN sorted_by(rows, [i \in 1..Len(rows) |-> DayOf(rows[i])])

\* sum(sets for _, sets, _ in rows)
RECURSIVE sum_sets(_)
sum_sets(rows) == IF rows = <<>> THEN 0 ELSE Head(rows).sets + sum_sets(Tail(rows))

(***************************************************************************)
(* The overload flow (src/bot/telegram_bot.py)                             *)
(*                                                                         *)
(* A message is its kind, the chat it is in, what it shows and its inline  *)
(* keyboard; a button is its caption (name and sets) and callback data.    *)
(***************************************************************************)
Button(name, sets, data) == [name |-> name, sets |-> sets, data |-> data]

Message(kind, subject, shown, muscle, volume, buttons) ==
    [kind |-> kind, subject |-> subject, shown |-> shown, muscle |-> muscle,
     volume |-> volume, buttons |-> buttons]

NoScreen == Message("None", "", 0, "", 0, <<>>)

\* the muscle keyboard of overload_command and of "ovl:back"
muscle_keyboard(state) ==
    LET muscle_groups == get_muscle_groups(state)
    IN [i \in 1..Len(muscle_groups) |->
           Button(muscle_groups[i].muscle, muscle_groups[i].sets,
                  "ovl:m:" \o muscle_groups[i].muscle)]

\* MuscleListMessage built from volumes kept from before any override
MuscleListMessage_kept(state) ==
    Message("MuscleList", "", 0, "", 0, muscle_keyboard(NewUserState(state.telegram_id)))

MuscleListMessage(state) ==
    Message("MuscleList", "", 0, "", 0, muscle_keyboard(state))

\* what a handler did: the manager afterwards, the message it edited (None
\* when it edited nothing) and the text of its query.answer ("" for the
\* bare acknowledgement every callback starts with)
Outcome(S, edit, answer) == [S |-> S, edit |-> edit, answer |-> answer]

_show_exercises_for_muscle(S, user_state, data) ==
    LET muscle_name == remove_all(data, "ovl:m:")
        exercises_data == get_exercises_by_muscle(muscle_name, user_state)
        current_total == sum_sets(exercises_data)
        keyboard ==
            [i \in 1..Len(exercises_data) |->
                Button(exercises_data[i].exercise.name, exercises_data[i].sets,
                       "ovl:e:" \o slice(exercises_data[i].exercise.name, 40))]
            \o << Button("Volver", 0, "ovl:back"), Button("Cancelar", 0, "ovl:cancel") >>
    IN IF exercises_data = <<>>
       THEN Outcome(S, Some(Message("NoExercises", muscle_name, 0, muscle_name, 0, <<>>)), "")
       ELSE Outcome(S, Some(Message("ExerciseList", "", 0, muscle_name, current_total,
                                    keyboard)), "")

\* the keyboard of the adjustment screen for the token text exercise_name
adjust_keyboard(minus_data, shown, plus_data, confirm_data) ==
    << Button("-", 0, minus_data), Button("", shown, "ovl:noop"),
       Button("+", 0, plus_data), Button("Confirmar", 0, confirm_data),
       Button("Cancelar", 0, "ovl:cancel") >>

_show_exercise_adjustment(S, user_state, data) ==
    LET exercise_name == remove_all(data, "ovl:e:")
        found == find_exercise(exercise_name)
        exercise == found[1]
        current_sets == get_exercise_sets(user_state, exercise)
    IN IF found = None
       THEN Outcome(S, Some(Message("ExerciseNotFound", exercise_name, 0, "", 0, <<>>)), "")
       ELSE Outcome(S, Some(Message("ExerciseAdjust", exercise.name, current_sets, "", 0,
                        adjust_keyboard("ovl:s:" \o slice(exercise_name, 30) \o ":-",
                                        current_sets,
                                        "ovl:s:" \o slice(exercise_name, 30) \o ":+",
                                        "ovl:c:" \o slice(exercise_name, 40)))), "")

\* adjusted_sets that moves by two sets at a time
adjusted_sets_by_two(direction, current_sets) ==
    IF direction = "+" THEN current_sets + 2 ELSE Max(1, current_sets - 2)

\* adjusted_sets without the floor at one set
adjusted_sets_nofloor(direction, current_sets) ==
    IF direction = "+" THEN current_sets + 1 ELSE current_sets - 1

\* new_sets of _adjust_exercise_sets for a direction that is "+" or "-"
adjusted_sets(direction, current_sets) ==
    IF direction = "+" THEN current_sets + 1 ELSE Max(1, current_sets - 1)

_adjust_exercise_sets(S, user_state, data) ==
    LET parts == split_colon(data)
        exercise_name == parts[3]
        direction == parts[4]
        found == find_exercise(exercise_name)
        exercise == found[1]
        current_sets == get_exercise_sets(user_state, exercise)
        new_sets == adjusted_sets(direction, current_sets)
    IN IF Len(parts) < 4 THEN Outcome(S, None, "Error en los datos")
       ELSE IF found = None THEN Outcome(S, None, "Ejercicio no encontrado")
       ELSE IF direction \notin {"+", "-"} THEN Outcome(S, None, "Operación inválida")
       ELSE Outcome(update_user_state(S, set_exercise_sets(user_state, exercise.name, new_sets)),
                    Some(Message("ExerciseAdjust", exercise.name, new_sets, "", 0,
                        adjust_keyboard("ovl:s:" \o exercise_name \o ":-", new_sets,
                                        "ovl:s:" \o exercise_name \o ":+",
                                        "ovl:c:" \o exercise_name))),
                    "Series ajustadas a " \o str(new_sets))

_confirm_overload_changes(S, user_state, data) ==
    LET exercise_name == remove_all(data, "ovl:c:")
        found == find_exercise(exercise_name)
        exercise == found[1]
        new_sets == get_exercise_sets(user_state, exercise)
        muscle_name == _map_category_to_muscle(exercise.category)
        muscle_volume == sum_sets(get_exercises_by_muscle(muscle_name, user_state))
    IN IF found = None
       THEN Outcome(S, Some(Message("ExerciseNotFound", exercise_name, 0, "", 0, <<>>)), "")
       ELSE Outcome(S, Some(Message("Confirmed", exercise.name, new_sets, muscle_name,
                                    muscle_volume,
                                    << Button("Continuar ajustando", 0, "ovl:back"),
                                       Button("Finalizar", 0, "ovl:cancel") >>)), "")

\* handle_overload_callback whose "ovl:back" branch does what "ovl:cancel" does
handle_overload_callback_back_cancels(S, user_id, data) ==
    LET S1 == get_user_state(S, user_id)
        user_state == S1.user_states[user_id]
    IN IF startswith(data, "ovl:m:") THEN _show_exercises_for_muscle(S1, user_state, data)
       ELSE IF startswith(data, "ovl:e:") THEN _show_exercise_adjustment(S1, user_state, data)
       ELSE IF startswith(data, "ovl:s:") THEN _adjust_exercise_sets(S1, user_state, data)
       ELSE IF startswith(data, "ovl:c:") THEN _confirm_overload_changes(S1, user_state, data)
       ELSE IF data \in {"ovl:back", "ovl:cancel"}
            THEN Outcome(S1, Some(Message("Cancelled", "", 0, "", 0, <<>>)), "")
       ELSE Outcome(S1, None, "")

\* handle_overload_callback whose "ovl:cancel" branch takes the user's
\* overrides back
handle_overload_callback_cancel_resets(S, user_id, data) ==
    LET S1 == get_user_state(S, user_id)
        user_state == S1.user_states[user_id]
    IN IF startswith(data, "ovl:m:") THEN _show_exercises_for_muscle(S1, user_state, data)
       ELSE IF startswith(data, "ovl:e:") THEN _show_exercise_adjustment(S1, user_state, data)
       ELSE IF startswith(data, "ovl:s:") THEN _adjust_exercise_sets(S1, user_state, data)
       ELSE IF startswith(data, "ovl:c:") THEN _confirm_overload_changes(S1, user_state, data)
       ELSE IF data = "ovl:back" THEN Outcome(S1, Some(MuscleListMessage(user_state)), "")
       ELSE IF data = "ovl:cancel"
            THEN Outcome(update_user_state(S1, [user_state EXCEPT !.custom_exercise_sets = <<>>]),
                         Some(Message("Cancelled", "", 0, "", 0, <<>>)), "")
       ELSE Outcome(S1, None, "")

\* handle_overload_callback for user_id and query.data = data
handle_overload_callback(S, user_id, data) ==
    LET S1 == get_user_state(S, user_id)
        user_state == S1.user_states[user_id]
    IN IF startswith(data, "ovl:m:") THEN _show_exercises_for_muscle(S1, user_state, data)
       ELSE IF startswith(data, "ovl:e:") THEN _show_exercise_adjustment(S1, user_state, data)
       ELSE IF startswith(data, "ovl:s:") THEN _adjust_exercise_sets(S1, user_state, data)
       ELSE IF startswith(data, "ovl:c:") THEN _confirm_overload_changes(S1, user_state, data)
       ELSE IF data = "ovl:back" THEN Outcome(S1, Some(MuscleListMessage(user_state)), "")
       ELSE IF data = "ovl:cancel" THEN Outcome(S1, Some(Message("Cancelled", "", 0, "", 0, <<>>)), "")
       ELSE Outcome(S1, None, "")

(***************************************************************************)
(* Log sink (src/sheets/sheets_manager.py)                                 *)
(*                                                                         *)
(* The worksheet is column A as col_values(1) returns it, top to bottom.   *)
(***************************************************************************)
\* _get_column_for_week with week 1 starting one column early
_get_column_for_week_base2(week, column_type) ==
    LET type_offset == CASE lower(column_type) = "peso"   -> 0
                         [] lower(column_type) = "series" -> 1
                         [] lower(column_type) = "notas"  -> 2
                         [] OTHER                         -> 0
    IN 2 + (week - 1) * 3 + type_offset

_get_column_for_week(week, column_type) ==
    LET base_column == 3
        week_offset == (week - 1) * 3
        type_offset == CASE lower(column_type) = "peso"   -> 0
                         [] lower(column_type) = "series" -> 1
                         [] lower(column_type) = "notas"  -> 2
                         [] OTHER                         -> 0
    IN base_column + week_offset + type_offset

\* the least element of a non-empty set of integers
Least(I) == CHOOSE i \in I : \A j \in I : i <= j

\* _find_exercise_row that does not stop at the next day header
_find_exercise_row_unbounded(sheet, exercise_name, day) ==
    IF sheet = None THEN None
    ELSE LET all_values == sheet[1]
             header_rows == {i \in 1..Len(all_values) :
                                contains("Dia " \o str(day), all_values[i])}
             exercise_lower == lower(exercise_name)
             cell_value(i) == lower(all_values[i])
             matches == {i \in (Least(header_rows) + 1)..(Len(all_values) - 1) :
                            /\ ~startswith(cell_value(i), "dia")
                            /\ \/ contains(exercise_lower, cell_value(i))
                               \/ contains(cell_value(i), exercise_lower)}
         IN IF header_rows = {} \/ matches = {} THEN None ELSE Some(Least(matches))

_find_exercise_row(sheet, exercise_name, day) ==
    IF sheet = None THEN None
    ELSE LET all_values == sheet[1]
             day_header == "Dia " \o str(day)
             header_rows == {i \in 1..Len(all_values) : contains(day_header, all_values[i])}
             day_row == Least(header_rows)
             exercise_lower == lower(exercise_name)
             cell_value(i) == lower(all_values[i])
             \* the rows the loop visits: it leaves at i >= len(all_values)
             visited == (day_row + 1)..(Len(all_values) - 1)
             is_header(i) == startswith(cell_value(i), "dia")
             is_match(i) == \/ contains(exercise_lower, cell_value(i))
                            \/ contains(cell_value(i), exercise_lower)
             stops == {i \in visited : is_header(i) \/ is_match(i)}
         IN IF header_rows = {} THEN None
            ELSE IF stops = {} \/ is_header(Least(stops)) THEN None
            ELSE Some(Least(stops))

CellWrite(row, col, value) == [row |-> row, col |-> col, value |-> value]

\* the update_cell calls log_workout makes for a found row, in order
planned_writes(log, row) ==
    (IF log.weight # None
     THEN <<CellWrite(row, _get_column_for_week(log.week, "peso"), str(log.weight[1]))>>
     ELSE <<>>)
    \o <<CellWrite(row, _get_column_for_week(log.week, "series"),
                   str(log.sets) \o " x " \o log.reps)>>
    \o (IF log.notes # ""
        THEN <<CellWrite(row, _get_column_for_week(log.week, "notas"), log.notes)>>
        ELSE <<>>)

\* log_workout that takes its earlier writes back when a later one raises
log_workout_rollback(sheet, log, fail_at) ==
    LET row == _find_exercise_row(sheet, log.exercise_name, log.day)
        writes == planned_writes(log, row[1])
    IN IF sheet = None \/ row = None \/ fail_at \in 1..Len(writes)
       THEN [writes |-> <<>>, result |-> FALSE]
       ELSE [writes |-> writes, result |-> TRUE]

\* log_workout: the calls that went through and the value returned, when
\* the fail_at-th update_cell raises (0: none does)
log_workout(sheet, log, fail_at) ==
    LET row == _find_exercise_row(sheet, log.exercise_name, log.day)
        writes == planned_writes(log, row[1])
    IN IF sheet = None THEN [writes |-> <<>>, result |-> FALSE]
       ELSE IF row = None THEN [writes |-> <<>>, result |-> FALSE]
       ELSE IF fail_at \in 1..Len(writes)
            THEN [writes |-> SubSeq(writes, 1, fail_at - 1), result |-> FALSE]
            ELSE [writes |-> writes, result |-> TRUE]

\* worksheet.cell(row, col).value on a blank grid after the update_cell
\* calls of writes: the value written last, None for a cell never written
cell_value(writes, row, col) ==
    LET hits == {k \in 1..Len(writes) : writes[k].row = row /\ writes[k].col = col}
    IN IF hits = {} THEN None
       ELSE Some(writes[CHOOSE k \in hits : \A j \in hits : j <= k].value)

\* the summary lines of rows from..to, one after the other
RECURSIVE summary_lines(_, _, _, _, _)
summary_lines(all_values, writes, week, from, to) ==
    IF from > to THEN ""
    ELSE LET series == cell_value(writes, from, _get_column_for_week(week, "series"))
             peso == cell_value(writes, from, _get_column_for_week(week, "peso"))
             series_val == IF series = None \/ series = Some("") THEN "Not logged"
                           ELSE series[1]
             peso_val == IF peso = None THEN "" ELSE peso[1]
             weight_str == IF peso_val # "" THEN " @ " \o peso_val \o "kg" ELSE ""
         IN "- " \o all_values[from] \o ": " \o series_val \o weight_str \o "\n"
            \o summary_lines(all_values, writes, week, from + 1, to)

get_day_progress(sheet, writes, day, week) ==
    IF sheet = None THEN "Not connected to Google Sheets"
    ELSE LET all_values == sheet[1]
             day_header == "Dia " \o str(day)
             header_rows == {i \in 1..Len(all_values) : contains(day_header, all_values[i])}
             day_row == Least(header_rows)
             \* the rows the loop visits: it leaves at i >= len(all_values)
             visited == (day_row + 1)..(Len(all_values) - 1)
             stops == {i \in visited : all_values[i] = "" \/ startswith(all_values[i], "Dia")}
             last == IF stops = {} THEN Len(all_values) - 1 ELSE Least(stops) - 1
         IN IF header_rows = {} THEN "Day " \o str(day) \o " not found in sheet"
            ELSE "**Day " \o str(day) \o ", Week " \o str(week) \o " Progress:**\n\n"
                 \o summary_lines(all_values, writes, week, day_row + 1, last)

(***************************************************************************)
(* The store driven through its own operations                             *)
(***************************************************************************)
Days == 1..4
Weeks == 1..6

\* the letter cases a caller may write an exercise name in
NameCases ==
    UNION {{exercises[i].name, lower(exercises[i].name), upper(exercises[i].name)} : i \in 1..2}

NoOut == [answer |-> "", edited |-> FALSE, replied |-> "", prompts |-> 0]

InitStore ==
    /\ disk = NoFile
    /\ user_states = _load_states(disk)
    /\ storage_ok = TRUE
    /\ ret = None

InitBot ==
    /\ screen = [chat |-> 0, message |-> NoScreen]
    /\ out = NoOut

InitSheet ==
    /\ worksheet = None
    /\ cell_writes = <<>>
    /\ log_result = None

\* an operation with its arguments (user id, text, number, workout log)
Request(op, user, data, num, log) ==
    [op |-> op, user |-> user, data |-> data, num |-> num, log |-> log]

Init ==
    /\ CatalogCategorized
    /\ CatalogKeyed
    /\ InitStore
    /\ InitBot
    /\ InitSheet
    /\ request = Request("", 0, "", 0, None)
    /\ nops = 0
    /\ tasks = <<>>

\* one more operation, handled from start to end: no handler is left suspended
Tick == nops < MaxOps /\ nops' = nops + 1 /\ UNCHANGED tasks

\* the manager's dict and file become those of S
StoreBecomes(S) ==
    /\ user_states' = S.user_states
    /\ disk' = S.disk
    /\ UNCHANGED <<storage_ok, botVars, sheetVars>>

OpGetUserState(u) ==
    /\ Tick
    /\ request' = Request("get_user_state", u, "", 0, None)
    /\ \E S \in {get_user_state(Store, u)} : StoreBecomes(S)
    /\ ret' = None

OpSetCurrentDay(u, day) ==
    /\ Tick
    /\ request' = Request("set_current_day", u, "", day, None)
    /\ \E S \in {set_current_day(Store, u, day)} : StoreBecomes(S)
    /\ ret' = None

OpSetCurrentWeek(u, week) ==
    /\ Tick
    /\ request' = Request("set_current_week", u, "", week, None)
    /\ \E S \in {set_current_week(Store, u, week)} : StoreBecomes(S)
    /\ ret' = None

OpConfigureSplit(u) ==
    /\ Tick
    /\ request' = Request("configure_split", u, "", 0, None)
    /\ \E S \in {configure_split(Store, u)} : StoreBecomes(S)
    /\ ret' = None

OpIncrementWeek(u) ==
    /\ Tick
    /\ request' = Request("increment_week", u, "", 0, None)
    /\ \E S \in {increment_week(Store, u)} :
          /\ StoreBecomes(S)
          /\ ret' = Some(S.user_states[u].current_week)

OpResetUser(u) ==
    /\ Tick
    /\ request' = Request("reset_user", u, "", 0, None)
    /\ \E S \in {reset_user(Store, u)} : StoreBecomes(S)
    /\ ret' = None

\* state = get_user_state(u); state.set_exercise_sets(name, sets);
\* update_user_state(state)
store_exercise_sets(S, u, name, sets) ==
    LET S1 == get_user_state(S, u)
    IN update_user_state(S1, set_exercise_sets(S1.user_states[u], name, sets))

OpSetExerciseSets(u, name, sets) ==
    /\ Tick
    /\ request' = Request("set_exercise_sets", u, name, sets, None)
    /\ \E S \in {store_exercise_sets(Store, u, name, sets)} : StoreBecomes(S)
    /\ ret' = None

\* the process ends and a new manager is constructed over the same file
Restart ==
    /\ Tick
    /\ request' = Request("restart", 0, "", 0, None)
    /\ user_states' = _load_states(disk)
    /\ ret' = None
    /\ UNCHANGED <<disk, storage_ok, botVars, sheetVars>>

NextStore ==
    \/ \E u \in Users : OpGetUserState(u)
    \/ \E u \in Users, day \in {1, 4} : OpSetCurrentDay(u, day)
    \/ \E u \in Users, week \in Weeks : OpSetCurrentWeek(u, week)
    \/ \E u \in Users : OpConfigureSplit(u)
    \/ \E u \in Users : OpIncrementWeek(u)
    \/ \E u \in Users : OpResetUser(u)
    \/ \E u \in Users, name \in NameCases, sets \in {1, MaxSets} :
          OpSetExerciseSets(u, name, sets)
    \/ Restart

SpecStore == Init /\ [][NextStore]_vars

(***************************************************************************)
(* Lookups in the catalog                                                  *)
(***************************************************************************)
\* what users type for an exercise: names, words of names, longer phrases
\* and names the catalog lacks, in lower, upper and mixed case
QueryBase ==
    {exercises[i].name : i \in ExIdx}
    \cup {"", "a", "press", "banca", "curl", "martillo", "inclinado", "mancuernas",
          "Press banca con barra", "Hoy hice curl martillo", "banca inclinado",
          "Press inclinado", "Sentadilla", "remo"}

Queries == QueryBase \cup {upper(q) : q \in QueryBase} \cup {lower(q) : q \in QueryBase}

FindExercise(query) ==
    /\ Tick
    /\ request' = Request("find_exercise", 0, query, 0, None)
    /\ ret' = find_exercise(query)
    /\ UNCHANGED <<user_states, disk, storage_ok, botVars, sheetVars>>

NextFind == \E query \in Queries : FindExercise(query)

SpecFind == Init /\ [][NextFind]_vars

(***************************************************************************)
(* Loading the catalog                                                     *)
(***************************************************************************)
\* the "sets x reps" cells a program table may hold
SetsRepsFields ==
    {"3 x 8-12", "2 x 15", " 4 x 6-10 ", "4x10", "4 X 10", "", "tres", "x 10",
     "5 x -", "4 x 8-", "4 x 8-10-12"}

WeightFields == {"", "60", "62.5", "sin peso"}

\* an exercise row: name, an unused cell, weight, sets x reps; or a row that
\* stops after the weight or after the name; the last one repeats, in small
\* letters, the name the tables have under day 2
ExerciseRows ==
    {<<"Press banca", "", w, f>> : w \in WeightFields, f \in {"3 x 8-12", "5 x -"}}
    \cup {<<"Press banca", "", "60", f>> : f \in SetsRepsFields}
    \cup {<<" Curl martillo ", "", w>> : w \in WeightFields}
    \cup {<<"Remo">>, <<"", "", "60", "3 x 8-12">>, <<>>,
          <<"sentadilla", "", "", "3 x 10">>}

DayRows == {<<"Dia 1">>, <<"Dia  3 - Pull", "", "Peso", "Series">>, <<"Dia">>, <<"Dia 5">>}

\* a program table: the two heading rows, day 2 with one exercise, then a
\* day marker and an exercise row
Tables ==
    {<< <<"Ejercicio", "", "WEEK 1">>, <<"", "", "Peso", "Series", "Notas">>,
        <<"Dia 2">>, <<"Sentadilla", "", "80", "4 x 6">>, d, e >> :
        d \in DayRows, e \in ExerciseRows}

\* ExerciseDatabase(csv_path) over a table; ret is the catalog it builds
LoadCatalog(rows) ==
    /\ Tick
    /\ request' = Request("_load_exercises", 0, rows[5][1], 0, Some(rows))
    /\ ret' = Some(_load_exercises(rows))
    /\ UNCHANGED <<user_states, disk, storage_ok, botVars, sheetVars>>

NextCatalog == \E rows \in Tables : LoadCatalog(rows)

SpecCatalog == Init /\ [][NextCatalog]_vars

(***************************************************************************)
(* /setday and /setweek (src/bot/telegram_bot.py)                          *)
(***************************************************************************)
\* the reply, and the manager afterwards; the confirmation is followed by
\* the day summary of the catalog, which reads no state (the tick sign
\* that opens the confirmation is left out)
\* setday_command that takes every number as a day
setday_command_unchecked(S, user_id, args) ==
    IF Len(args) > 0
    THEN LET day == parse_int(args[1]) IN
         IF day = None
         THEN [S |-> S, reply |-> "Please provide a valid day number (1-4)."]
         ELSE [S |-> set_current_day(S, user_id, day[1]),
               reply |-> "Set to Day " \o str(Max(day[1], 0))]
    ELSE [S |-> S, reply |-> "Which day are you training? (1-4)"]

setday_command(S, user_id, args) ==
    IF Len(args) > 0
    THEN LET day == parse_int(args[1]) IN
         IF day = None
         THEN [S |-> S, reply |-> "Please provide a valid day number (1-4)."]
         ELSE IF 1 <= day[1] /\ day[1] <= 4
         THEN [S |-> set_current_day(S, user_id, day[1]),
               reply |-> "Set to Day " \o str(day[1])]
         ELSE [S |-> S, reply |-> "Please choose a day between 1 and 4."]
    ELSE [S |-> S, reply |-> "Which day are you training? (1-4)"]

\* setweek_command that takes every number as a week
setweek_command_unchecked(S, user_id, args) ==
    IF Len(args) > 0
    THEN LET week == parse_int(args[1]) IN
         IF week = None
         THEN [S |-> S, reply |-> "Please provide a valid week number (1-6)."]
         ELSE [S |-> set_current_week(S, user_id, week[1]),
               reply |-> "Set to Week " \o str(Max(week[1], 0))]
    ELSE [S |-> S, reply |-> "Which week are you in? (1-6)"]

setweek_command(S, user_id, args) ==
    IF Len(args) > 0
    THEN LET week == parse_int(args[1]) IN
         IF week = None
         THEN [S |-> S, reply |-> "Please provide a valid week number (1-6)."]
         ELSE IF 1 <= week[1] /\ week[1] <= 6
         THEN [S |-> set_current_week(S, user_id, week[1]),
               reply |-> "Set to Week " \o str(week[1])]
         ELSE [S |-> S, reply |-> "Please choose a week between 1 and 6."]
    ELSE [S |-> S, reply |-> "Which week are you in? (1-6)"]

\* context.args: the words after the command
ArgLists ==
    {<<>>, <<"abc">>, <<"2.5">>, <<"0">>, <<"2">>, <<"4">>, <<"5">>, <<"6">>,
     <<"7">>, <<"-1">>, <<"+3">>, <<"3", "x">>}

FirstArg(args) == IF Len(args) > 0 THEN args[1] ELSE ""

\* the command replies and, when it took the number, has stored it
Replies(r) ==
    /\ user_states' = r.S.user_states
    /\ disk' = r.S.disk
    /\ out' = [answer |-> "", edited |-> FALSE, replied |-> r.reply, prompts |-> 0]
    /\ ret' = None
    /\ UNCHANGED <<storage_ok, screen, sheetVars>>

CmdSetDay(u, args) ==
    /\ Tick
    /\ request' = Request("setday_command", u, FirstArg(args), Len(args), None)
    /\ \E r \in {setday_command(Store, u, args)} : Replies(r)

CmdSetWeek(u, args) ==
    /\ Tick
    /\ request' = Request("setweek_command", u, FirstArg(args), Len(args), None)
    /\ \E r \in {setweek_command(Store, u, args)} : Replies(r)

NextCommands ==
    \/ \E u \in Users, args \in ArgLists : CmdSetDay(u, args)
    \/ \E u \in Users, args \in ArgLists : CmdSetWeek(u, args)
    \/ \E u \in Users : OpSetExerciseSets(u, "Press banca", MaxSets)

SpecCommands == Init /\ [][NextCommands]_vars

(***************************************************************************)
(* The store with its storage failing: writes that raise, and a file that  *)
(* something else has left unreadable before the next start.               *)
(***************************************************************************)
\* from now on open(..., "w") or json.dump raises
StorageFails ==
    /\ storage_ok
    /\ storage_ok' = FALSE
    /\ request' = Request("storage_fails", 0, "", 0, None)
    /\ UNCHANGED <<user_states, disk, ret, botVars, sheetVars, nops, tasks>>

StorageRecovers ==
    /\ ~storage_ok
    /\ storage_ok' = TRUE
    /\ request' = Request("storage_recovers", 0, "", 0, None)
    /\ UNCHANGED <<user_states, disk, ret, botVars, sheetVars, nops, tasks>>

\* the file cut short (no longer JSON), or given a top-level key that is
\* not a number beside the records it holds
Damaged(file, kind) ==
    IF kind = "truncated"
    THEN [exists |-> TRUE, parses |-> FALSE, data |-> file.data]
    ELSE [exists |-> TRUE, parses |-> file.parses,
          data |-> dict_set(file.data, "abc", dump_states(<<NewUserState(1)>>)["1"])]

DamageKinds == {"truncated", "bad_key"}

Damage(kind) ==
    /\ ~load_raises(disk)
    /\ disk' = Damaged(disk, kind)
    /\ request' = Request("damage", 0, kind, 0, None)
    /\ UNCHANGED <<user_states, storage_ok, ret, botVars, sheetVars, nops, tasks>>

NextFaults ==
    \/ \E u \in Users : OpGetUserState(u)
    \/ \E u \in Users : OpSetCurrentDay(u, 4)
    \/ \E u \in Users : OpSetCurrentWeek(u, 3)
    \/ \E u \in Users : OpConfigureSplit(u)
    \/ \E u \in Users : OpIncrementWeek(u)
    \/ \E u \in Users : OpResetUser(u)
    \/ \E u \in Users : OpSetExerciseSets(u, "Press banca", MaxSets)
    \/ Restart
    \/ StorageFails
    \/ StorageRecovers
    \/ \E kind \in DamageKinds : Damage(kind)

SpecFaults == Init /\ [][NextFaults]_vars

(***************************************************************************)
(* The process stopping inside _save_states.  open(path, "w") empties the  *)
(* file in place and json.dump then writes the text piece by piece into    *)
(* the same file: there is no temporary file and no rename.                *)
(***************************************************************************)
\* how far the write got when the process stopped: the file just opened,
\* or some of the text written
WrittenSoFar == {"nothing", "part"}

\* the file left by a save that was opened and not finished: it is there,
\* and it holds no text or the beginning of one, neither of which is JSON
interrupted_save(states, file, written) ==
    [exists |-> TRUE, parses |-> FALSE,
     data |-> IF written = "nothing" THEN <<>> ELSE dump_states(states)]

\* the process stops while set_current_day(u, day) is saving, and the next
\* process constructs its manager over the file that is left
StopDuringSave(u, day, written) ==
    /\ Tick
    /\ storage_ok
    /\ request' = Request("stop_during_save", u, written, day, None)
    /\ \E S \in {get_user_state(Store, u)} :
          disk' = interrupted_save(
                      put_state(S.user_states, u,
                                [S.user_states[u] EXCEPT !.current_day = Some(day)]),
                      S.disk, written)
    /\ user_states' = _load_states(disk')
    /\ ret' = None
    /\ UNCHANGED <<storage_ok, botVars, sheetVars>>

NextCrash ==
    \/ \E u \in Users : OpGetUserState(u)
    \/ \E u \in Users : OpSetCurrentDay(u, 4)
    \/ \E u \in Users : OpSetCurrentWeek(u, 3)
    \/ \E u \in Users : OpIncrementWeek(u)
    \/ \E u \in Users : OpSetExerciseSets(u, "Press banca", MaxSets)
    \/ Restart
    \/ \E u \in Users, written \in WrittenSoFar : StopDuringSave(u, 1, written)

SpecCrash == Init /\ [][NextCrash]_vars


(***************************************************************************)
(* The bot driven by Telegram events                                       *)
(***************************************************************************)
\* callback data the bot itself can put on a button
RenderedTokens ==
    {"ovl:m:" \o _map_category_to_muscle(exercises[i].category) : i \in ExIdx}
    \cup {"ovl:e:" \o slice(exercises[i].name, 40) : i \in ExIdx}
    \cup {"ovl:s:" \o slice(slice(exercises[i].name, 40), 30) \o ":+" : i \in ExIdx}
    \cup {"ovl:s:" \o slice(slice(exercises[i].name, 40), 30) \o ":-" : i \in ExIdx}
    \cup {"ovl:c:" \o slice(slice(exercises[i].name, 40), 40) : i \in ExIdx}
    \cup {"ovl:back", "ovl:cancel", "ovl:noop"}

\* callback data matching "^ovl:" that no flow step understands: an unknown
\* kind, a missing field, an invalid direction, an empty or unknown name
MalformedTokens ==
    {"ovl:", "ovl:x:Press banca", "ovl:s:Curl martillo", "ovl:s:Curl martillo:*",
     "ovl:e:", "ovl:s::+", "ovl:c:", "ovl:m:",
     "ovl:e:Sentadilla", "ovl:s:Sentadilla:+", "ovl:c:Sentadilla", "ovl:m:Gemelos"}

Tokens == RenderedTokens \cup MalformedTokens

\* one more update, handled from start to end before the next one
Event == nops < MaxEvents /\ nops' = nops + 1 /\ UNCHANGED tasks

WithinMaxSets(S) ==
    \A t \in DOMAIN S.user_states :
        \A n \in DOMAIN S.user_states[t].custom_exercise_sets :
            S.user_states[t].custom_exercise_sets[n] <= MaxSets

\* /overload: a new message with the muscle keyboard
overload_command(S, user_id) ==
    LET S1 == get_user_state(S, user_id)
        user_state == S1.user_states[user_id]
    IN [S |-> S1,
        reply |-> IF get_muscle_groups(user_state) = <<>>
                  THEN NoScreen ELSE MuscleListMessage(user_state)]

CmdOverload(u) ==
    /\ Event
    /\ request' = Request("overload_command", u, "", 0, None)
    /\ \E r \in {overload_command(Store, u)} :
        /\ user_states' = r.S.user_states
        /\ disk' = r.S.disk
        /\ screen' = IF r.reply = NoScreen THEN screen
                     ELSE [chat |-> u, message |-> r.reply]
        /\ out' = [answer |-> "", edited |-> FALSE,
                   replied |-> IF r.reply = NoScreen THEN "No muscle groups found"
                               ELSE "Elige un musculo",
                   prompts |-> 0]
    /\ ret' = None
    /\ UNCHANGED <<storage_ok, sheetVars>>

\* a callback handler with a session: it acts on a token only when the
\* token is on a button of the message on the user's screen
OvlCallback_session(u, data) ==
    /\ Event
    /\ request' = Request("handle_overload_callback", u, data, 0, None)
    /\ \E r \in {IF /\ screen.chat = u
                     /\ \E k \in 1..Len(screen.message.buttons) :
                           screen.message.buttons[k].data = data
                  THEN handle_overload_callback(Store, u, data)
                  ELSE Outcome(Store, None, "")} :
        /\ WithinMaxSets(r.S)
        /\ user_states' = r.S.user_states
        /\ disk' = r.S.disk
        /\ screen' = IF r.edit = None THEN screen
                     ELSE [chat |-> u, message |-> r.edit[1]]
        /\ out' = [answer |-> r.answer, edited |-> r.edit # None, replied |-> "",
                   prompts |-> 0]
    /\ ret' = None
    /\ UNCHANGED <<storage_ok, sheetVars>>

\* a callback query from user u carrying data: a button of the message on
\* screen, a button of an older message, or data written by hand
OvlCallback(u, data) ==
    /\ Event
    /\ request' = Request("handle_overload_callback", u, data, 0, None)
    /\ \E r \in {handle_overload_callback(Store, u, data)} :
        /\ WithinMaxSets(r.S)
        /\ user_states' = r.S.user_states
        /\ disk' = r.S.disk
        /\ screen' = IF r.edit = None THEN screen
                     ELSE [chat |-> u, message |-> r.edit[1]]
        /\ out' = [answer |-> r.answer, edited |-> r.edit # None, replied |-> "",
                   prompts |-> 0]
    /\ ret' = None
    /\ UNCHANGED <<storage_ok, sheetVars>>

Next ==
    \/ \E u \in Users : CmdOverload(u)
    \/ \E u \in Users, data \in Tokens : OvlCallback(u, data)

Spec == Init /\ [][Next]_vars


(***************************************************************************)
(* The log sink driven through its own operations                          *)
(***************************************************************************)
\* column A of a sheet laid out without blank rows
SheetTight ==
    << "Ejercicio", "Dia 1", "Press banca", "Dia 2", "Curl martillo", "Remo con barra",
       "Dia 3", "Press banca inclinado con mancuernas", "Dia 4", "Sentadilla" >>

\* column A of a sheet whose day blocks are separated by blank rows
SheetSpaced ==
    << "Ejercicio", "", "Dia 1", "Press banca", "", "Dia 2", "Curl martillo",
       "Remo con barra", "", "Dia 3", "Press banca inclinado con mancuernas", "",
       "Dia 4", "Sentadilla" >>

Sheets == {SheetTight, SheetSpaced}

WorkoutLog(exercise_name, week, day, sets, reps, weight, notes) ==
    [exercise_name |-> exercise_name, week |-> week, day |-> day, sets |-> sets,
     reps |-> reps, weight |-> weight, notes |-> notes]

LogNames == {"Press banca", "Curl martillo", "Sentadilla", "Peso muerto"}

LogWeeks == {1, 2, 6}

Logs == {WorkoutLog(n, w, d, 3, "10", wt, nt) :
            n \in LogNames, w \in LogWeeks, d \in Days, wt \in {None, Some(60)},
            nt \in {"", "facil"}}

\* connect(): the first sheet of the spreadsheet becomes the worksheet
Connect(sheet) ==
    /\ worksheet = None
    /\ worksheet' = Some(sheet)
    /\ request' = Request("connect", 0, "", 0, None)
    /\ UNCHANGED <<cell_writes, log_result, storeVars, botVars, nops, tasks>>

LogWorkout(log, fail_at) ==
    /\ nops < MaxLogs
    /\ nops' = nops + 1
    /\ request' = Request("log_workout", 0, "", fail_at, Some(log))
    /\ \E r \in {log_workout(worksheet, log, fail_at)} :
          /\ cell_writes' = r.writes
          /\ log_result' = Some(r.result)
    /\ UNCHANGED <<worksheet, storeVars, botVars, tasks>>

NextSheets ==
    \/ \E sheet \in Sheets : Connect(sheet)
    \/ \E log \in Logs, fail_at \in 0..3 : LogWorkout(log, fail_at)

SpecSheets == Init /\ [][NextSheets]_vars

\* the logs of one exercise the sheet has and one it lacks, in every week
WeekLogs == {WorkoutLog(n, w, 1, 3, "10", wt, nt) :
                n \in {"Press banca", "Peso muerto"}, w \in Weeks,
                wt \in {None, Some(60)}, nt \in {"", "facil"}}

NextWrites ==
    \/ Connect(SheetTight)
    \/ \E log \in WeekLogs, fail_at \in 0..3 : LogWorkout(log, fail_at)

SpecWrites == Init /\ [][NextWrites]_vars

\* column A of a sheet with titled day headers, an exercise that comes back
\* on a later day, a last day that ends the column, and no day 4
SheetTitled ==
    << "Ejercicio", "Dia 1 - Empuje", "Press banca", "Fondos", "Dia 2 - Tiron",
       "Curl martillo", "Dia 3 - Empuje", "Press banca", "Peso muerto" >>

RowSheets == {SheetTight, SheetSpaced, SheetTitled}

\* names as the agent passes them: of the sheet or not, in part, in capitals
RowNames ==
    {"Press banca", "Curl martillo", "Sentadilla", "Peso muerto", "Remo", "banca",
     "CURL MARTILLO", "Press banca inclinado con mancuernas"}

\* _find_exercise_row(exercise_name, day) on the connected worksheet
FindRow(exercise_name, day) ==
    /\ Tick
    /\ request' = Request("_find_exercise_row", 0, exercise_name, day, None)
    /\ ret' = _find_exercise_row(worksheet, exercise_name, day)
    /\ UNCHANGED <<user_states, disk, storage_ok, botVars, sheetVars>>

NextRows ==
    \/ \E sheet \in RowSheets : Connect(sheet)
    \/ \E exercise_name \in RowNames, day \in 1..5 : FindRow(exercise_name, day)

SpecRows == Init /\ [][NextRows]_vars

(***************************************************************************)
(* Free-text messages (src/agents/gym_agent.py, handle_message)            *)
(*                                                                         *)
(* What agent.run gives back: it raises, or its text holds no {...}, or    *)
(* the {...} is not JSON, or it is a JSON object with the given fields.    *)
(* A reps value is a JSON number [int |-> n] or a JSON string [str |-> s]. *)
(***************************************************************************)
Raises == [raises |-> TRUE, object |-> FALSE, json |-> FALSE, fields |-> <<>>]
Prose == [raises |-> FALSE, object |-> FALSE, json |-> FALSE, fields |-> <<>>]
BrokenJson == [raises |-> FALSE, object |-> TRUE, json |-> FALSE, fields |-> <<>>]
JsonObject(fields) == [raises |-> FALSE, object |-> TRUE, json |-> TRUE, fields |-> fields]

\* _parse_agent_response: the dict, or None
_parse_agent_response(response) ==
    IF response.object /\ response.json THEN Some(response.fields) ELSE None

\* str(result["reps"])
py_str(v) == IF "int" \in DOMAIN v THEN str(v.int) ELSE v.str

\* parse_workout_message that does not look at "found"
parse_workout_message_trusting(response, user_state) ==
    LET result == _parse_agent_response(response) IN
    IF response.raises \/ result = None THEN None
    ELSE IF "exercise_name" \notin DOMAIN result[1] THEN None
    ELSE LET exercise == find_exercise(result[1].exercise_name) IN
         IF exercise = None THEN None
         ELSE IF "sets" \notin DOMAIN result[1] \/ "reps" \notin DOMAIN result[1] THEN None
         ELSE Some(WorkoutLog(exercise[1].name, user_state.current_week, exercise[1].day,
                              result[1].sets, py_str(result[1].reps),
                              dict_get(result[1], "weight", None), ""))

\* parse_workout_message: the WorkoutLog, or None; every exception (the
\* agent raising, a KeyError for a missing key) ends in the except branch
\* parse_workout_message that files the log under the user's current day
parse_workout_message_user_day(response, user_state) ==
    LET result == _parse_agent_response(response) IN
    IF response.raises \/ result = None THEN None
    ELSE IF ~dict_get(result[1], "found", FALSE) THEN None
    ELSE IF "exercise_name" \notin DOMAIN result[1] THEN None
    ELSE LET exercise == find_exercise(result[1].exercise_name) IN
         IF exercise = None THEN None
         ELSE IF "sets" \notin DOMAIN result[1] \/ "reps" \notin DOMAIN result[1] THEN None
         ELSE Some(WorkoutLog(exercise[1].name, user_state.current_week,
                              IF user_state.current_day = None THEN exercise[1].day
                              ELSE user_state.current_day[1],
                              result[1].sets, py_str(result[1].reps),
                              dict_get(result[1], "weight", None), ""))

parse_workout_message(response, user_state) ==
    LET result == _parse_agent_response(response) IN
    IF response.raises \/ result = None THEN None
    ELSE IF ~dict_get(result[1], "found", FALSE) THEN None
    ELSE IF "exercise_name" \notin DOMAIN result[1] THEN None
    ELSE LET exercise == find_exercise(result[1].exercise_name) IN
         IF exercise = None THEN None
         ELSE IF "sets" \notin DOMAIN result[1] \/ "reps" \notin DOMAIN result[1] THEN None
         ELSE Some(WorkoutLog(exercise[1].name, user_state.current_week, exercise[1].day,
                              result[1].sets, py_str(result[1].reps),
                              dict_get(result[1], "weight", None), ""))

\* handle_message without the test of the day: it goes on to the agent
\* whether a day is set or not
handle_message_no_day_gate(S, user_id, message_text, response, sheet, fail_at) ==
    LET S1 == get_user_state(S, user_id)
        user_state == S1.user_states[user_id]
        Quiet(S2, reply, prompts) ==
            [S |-> S2, reply |-> reply, writes |-> <<>>, result |-> None, prompts |-> prompts]
    IN IF message_text \in {"1", "2", "3", "4"}
       THEN Quiet(set_current_day(S1, user_id, int(message_text)),
                  "Set to Day " \o message_text, 0)
       ELSE LET workout_log == parse_workout_message(response, user_state) IN
            IF workout_log = None
            THEN Quiet(S1, "I couldn't understand that exercise. Try being more specific!", 1)
            ELSE LET logged == log_workout(sheet, workout_log[1], fail_at) IN
                 [S |-> S1,
                  reply |-> IF logged.result THEN "Logged" ELSE "Failed to log workout",
                  writes |-> logged.writes, result |-> Some(logged.result),
                  prompts |-> IF logged.result THEN 2 ELSE 1]

\* handle_message: the manager afterwards, the last reply, the cells
\* written with the result of log_workout (None when it was not called),
\* and how many times the agent was run (once to read the message, once
\* more for the encouragement after a log)
handle_message(S, user_id, message_text, response, sheet, fail_at) ==
    LET S1 == get_user_state(S, user_id)
        user_state == S1.user_states[user_id]
        Quiet(S2, reply, prompts) ==
            [S |-> S2, reply |-> reply, writes |-> <<>>, result |-> None, prompts |-> prompts]
    IN IF message_text \in {"1", "2", "3", "4"}
       THEN Quiet(set_current_day(S1, user_id, int(message_text)),
                  "Set to Day " \o message_text, 0)
       ELSE IF user_state.current_day = None
       THEN Quiet(S1, "Please set your workout day first with /setday", 0)
       ELSE LET workout_log == parse_workout_message(response, user_state) IN
            IF workout_log = None
            THEN Quiet(S1, "I couldn't understand that exercise. Try being more specific!", 1)
            ELSE LET logged == log_workout(sheet, workout_log[1], fail_at) IN
                 [S |-> S1,
                  reply |-> IF logged.result THEN "Logged" ELSE "Failed to log workout",
                  writes |-> logged.writes, result |-> Some(logged.result),
                  prompts |-> IF logged.result THEN 2 ELSE 1]

\* nextweek_command: increment_week and the reply with the new week
nextweek_command(S, user_id) ==
    LET S1 == increment_week(S, user_id)
    IN [S |-> S1, reply |-> "Moved to Week " \o str(S1.user_states[user_id].current_week)]

\* the answers of the interpretation service
Responses ==
    {Raises, Prose, BrokenJson,
     JsonObject([found |-> FALSE, exercise_name |-> "Press banca", sets |-> 3,
                 reps |-> [int |-> 10], weight |-> None]),
     JsonObject([exercise_name |-> "Press banca", sets |-> 3, reps |-> [int |-> 10]]),
     JsonObject([found |-> TRUE, sets |-> 3, reps |-> [int |-> 10]]),
     JsonObject([found |-> TRUE, exercise_name |-> "Press banca", reps |-> [int |-> 10]]),
     JsonObject([found |-> TRUE, exercise_name |-> "Press banca", sets |-> 3]),
     JsonObject([found |-> TRUE, exercise_name |-> "Sentadilla", sets |-> 3,
                 reps |-> [int |-> 10], weight |-> Some(60)]),
     JsonObject([found |-> TRUE, exercise_name |-> "Press banca", sets |-> 3,
                 reps |-> [int |-> 10], weight |-> Some(60)]),
     JsonObject([found |-> TRUE, exercise_name |-> "curl martillo", sets |-> 2,
                 reps |-> [str |-> "8-12"]]),
     JsonObject([found |-> TRUE, exercise_name |-> "banca", sets |-> 4,
                 reps |-> [str |-> "6"], weight |-> None])}

\* a text message with what the service answers to it and the update_cell
\* call that fails (0: none); a digit alone never reaches the service
Texts ==
    {<<t, Prose, 0>> : t \in {"1", "4"}}
    \cup {<<t, r, f>> : t \in {"5", "press banca 3x10"}, r \in Responses, f \in {0, 2}}

HandleMessage(u, text) ==
    /\ Tick
    /\ request' = Request("handle_message", u, text[1], text[3], Some(text[2]))
    /\ \E r \in {handle_message(Store, u, text[1], text[2], worksheet, text[3])} :
          /\ user_states' = r.S.user_states
          /\ disk' = r.S.disk
          /\ out' = [answer |-> "", edited |-> FALSE, replied |-> r.reply,
                     prompts |-> r.prompts]
          /\ cell_writes' = r.writes
          /\ log_result' = r.result
    /\ ret' = None
    /\ UNCHANGED <<storage_ok, screen, worksheet>>

CmdNextWeek(u) ==
    /\ Tick
    /\ request' = Request("nextweek_command", u, "", 0, None)
    /\ \E r \in {nextweek_command(Store, u)} : Replies(r)

NextMessages ==
    \/ Connect(SheetTight)
    \/ \E u \in Users, text \in Texts : HandleMessage(u, text)
    \/ \E u \in Users : CmdNextWeek(u)

SpecMessages == Init /\ [][NextMessages]_vars

(***************************************************************************)
(* Every kind of update the bot handles, in any order                      *)
(***************************************************************************)
\* /status, /today and /week read the record of the user, creating it
CmdStatus(u) ==
    /\ Tick
    /\ request' = Request("status_command", u, "", 0, None)
    /\ \E S \in {get_user_state(Store, u)} : StoreBecomes(S)
    /\ ret' = None

EventArgs == {<<"4">>, <<"7">>, <<"0">>, <<"6">>, <<"-1">>}

EventTexts == {<<"1", Prose, 0>>, <<"5", Prose, 0>>}

EventTokens ==
    {"ovl:s:Press banca:+", "ovl:s:Curl martillo:-", "ovl:s::-", "ovl:s:Sentadilla:+",
     "ovl:c:Press banca"}

NextEvents ==
    \/ \E u \in Users, args \in EventArgs : CmdSetDay(u, args)
    \/ \E u \in Users, args \in EventArgs : CmdSetWeek(u, args)
    \/ \E u \in Users : CmdNextWeek(u)
    \/ \E u \in Users : CmdStatus(u)
    \/ \E u \in Users, text \in EventTexts : HandleMessage(u, text)
    \/ \E u \in Users : CmdOverload(u)
    \/ \E u \in Users, data \in EventTokens : OvlCallback(u, data)

SpecEvents == Init /\ [][NextEvents]_vars

(***************************************************************************)
(* The progress summary of a day, read back from the sheet                 *)
(***************************************************************************)
ProgressLogs == {WorkoutLog(n, w, d, 3, "10", wt, "") :
                    n \in {"Press banca", "Peso muerto"}, w \in {1, 2}, d \in {1, 3},
                    wt \in {None, Some(60)}}

\* get_day_progress(day, week) on the connected worksheet, whose cells are
\* those the last log_workout wrote
DayProgress(day, week) ==
    /\ request' = Request("get_day_progress", 0, str(week), day, None)
    /\ ret' = Some(get_day_progress(worksheet, cell_writes, day, week))
    /\ UNCHANGED <<user_states, disk, storage_ok, botVars, sheetVars, nops, tasks>>

NextProgress ==
    \/ \E sheet \in RowSheets : Connect(sheet)
    \/ \E log \in ProgressLogs : LogWorkout(log, 0)
    \/ \E day \in 1..4, week \in {1, 2} : DayProgress(day, week)

SpecProgress == Init /\ [][NextProgress]_vars

(***************************************************************************)
(* The commands that show and do not set                                   *)
(*                                                                         *)
(* The long fixed texts of /start and /help are kept by their heading.     *)
(***************************************************************************)
\* repr of a float given in hundredths: 6000 is "60.0", 6250 is "62.5"
float_str(h) ==
    str(h \div 100) \o "."
    \o (IF h % 10 = 0 THEN str((h % 100) \div 10)
        ELSE str((h % 100) \div 10) \o str(h % 10))

\* Exercise.__str__
Exercise_str(e) ==
    e.name \o ": " \o str(e.default_sets) \o " x " \o e.default_rep_range
    \o (IF e.default_weight # None /\ e.default_weight # Some(0)
        THEN " @ " \o float_str(e.default_weight[1]) \o "kg" ELSE "")

RECURSIVE exercise_lines(_)
exercise_lines(list) ==
    IF list = <<>> THEN ""
    ELSE "- " \o Exercise_str(Head(list)) \o "\n" \o exercise_lines(Tail(list))

\* ExerciseDatabase.get_day_summary over the catalog
get_day_summary(day) ==
    LET list == SelectSeq(get_all_exercises, LAMBDA e : e.day = day)
    IN IF list = <<>> THEN "No exercises found for Day " \o str(day)
       ELSE "**Day " \o str(day) \o " Exercises:**\n\n" \o exercise_lines(list)

RECURSIVE week_days(_, _, _, _)
week_days(sheet, writes, week, day) ==
    IF day > 4 THEN ""
    ELSE "\n" \o get_day_progress(sheet, writes, day, week) \o "\n"
         \o week_days(sheet, writes, week, day + 1)

\* GymAgent.get_week_summary
get_week_summary(user_state, sheet, writes) ==
    "**Week " \o str(user_state.current_week) \o " Summary:**\n\n"
    \o week_days(sheet, writes, user_state.current_week, 1)

start_command(S, user_id) ==
    [S |-> get_user_state(S, user_id), reply |-> "Welcome to Dr. Mike's Gym Tracker!"]

help_command(S, user_id) == [S |-> S, reply |-> "**Gym Tracker Commands:**"]

today_command(S, user_id) ==
    LET S1 == get_user_state(S, user_id)
        user_state == S1.user_states[user_id]
    IN [S |-> S1,
        reply |-> IF user_state.current_day = None
                  THEN "Please set your workout day first with /setday"
                  ELSE get_day_summary(user_state.current_day[1])]

week_command(S, user_id, sheet, writes) ==
    LET S1 == get_user_state(S, user_id)
    IN [S |-> S1, reply |-> get_week_summary(S1.user_states[user_id], sheet, writes)]

schedule_command(S, args) ==
    IF Len(args) > 0
    THEN LET day == parse_int(args[1]) IN
         IF day = None THEN [S |-> S, reply |-> "Usage: /schedule <day_number>"]
         ELSE IF 1 <= day[1] /\ day[1] <= 4
         THEN [S |-> S, reply |-> get_day_summary(day[1])]
         ELSE [S |-> S, reply |-> "Please choose a day between 1 and 4."]
    ELSE [S |-> S, reply |-> "Usage: /schedule <day_number>\nExample: /schedule 1"]

CmdStart(u) ==
    /\ Tick
    /\ request' = Request("start_command", u, "", 0, None)
    /\ \E r \in {start_command(Store, u)} : Replies(r)

CmdHelp(u) ==
    /\ Tick
    /\ request' = Request("help_command", u, "", 0, None)
    /\ \E r \in {help_command(Store, u)} : Replies(r)

CmdToday(u) ==
    /\ Tick
    /\ request' = Request("today_command", u, "", 0, None)
    /\ \E r \in {today_command(Store, u)} : Replies(r)

CmdWeek(u) ==
    /\ Tick
    /\ request' = Request("week_command", u, "", 0, None)
    /\ \E r \in {week_command(Store, u, worksheet, cell_writes)} : Replies(r)

CmdSchedule(u, args) ==
    /\ Tick
    /\ request' = Request("schedule_command", u, FirstArg(args), Len(args), None)
    /\ \E r \in {schedule_command(Store, args)} : Replies(r)

\* one token of every kind of the flow
FrameTokens ==
    {"ovl:m:Pecho", "ovl:e:Press banca", "ovl:s:Press banca:+", "ovl:s:Press banca:-",
     "ovl:c:Press banca", "ovl:back", "ovl:cancel"}

NextFrame ==
    \/ \E u \in Users : CmdStart(u)
    \/ \E u \in Users : CmdHelp(u)
    \/ \E u \in Users : CmdStatus(u)
    \/ \E u \in Users : CmdToday(u)
    \/ \E u \in Users : CmdWeek(u)
    \/ \E u \in Users, args \in {<<>>, <<"1">>, <<"5">>, <<"x">>} : CmdSchedule(u, args)
    \/ \E u \in Users : CmdOverload(u)
    \/ \E u \in Users, data \in FrameTokens : OvlCallback(u, data)
    \/ \E u \in Users : CmdSetDay(u, <<"4">>)
    \/ \E u \in Users : CmdNextWeek(u)

SpecFrame == Init /\ [][NextFrame]_vars

(***************************************************************************)
(* The two mapping tables, looked up on their own                          *)
(***************************************************************************)
\* the values _categorize_exercise returns
Categories == {"Shoulders", "Chest", "Back", "Biceps", "Triceps", "Legs", "Other"}

\* names looked up: the categories, the names shown for them, and names of
\* neither table
MappingNames ==
    Categories \cup {_map_category_to_muscle(c) : c \in Categories}
    \cup {"Gemelos", "pecho", "Biceps ", ""}

MapCategory(category) ==
    /\ Tick
    /\ request' = Request("_map_category_to_muscle", 0, category, 0, None)
    /\ ret' = Some(_map_category_to_muscle(category))
    /\ UNCHANGED <<user_states, disk, storage_ok, botVars, sheetVars>>

ReverseMuscle(muscle_name) ==
    /\ Tick
    /\ request' = Request("_reverse_muscle_mapping", 0, muscle_name, 0, None)
    /\ ret' = Some(_reverse_muscle_mapping(muscle_name))
    /\ UNCHANGED <<user_states, disk, storage_ok, botVars, sheetVars>>

NextMapping ==
    \/ \E category \in MappingNames : MapCategory(category)
    \/ \E muscle_name \in MappingNames : ReverseMuscle(muscle_name)

SpecMapping == Init /\ [][NextMapping]_vars

(***************************************************************************)
(* Callback handlers as coroutines                                         *)
(*                                                                         *)
(* handle_overload_callback is a coroutine: it gives the event loop back   *)
(* at every await and runs without interruption between two awaits.  A     *)
(* started handler is a record of tasks: the query it serves and the       *)
(* await it is suspended at,                                               *)
(*   "answer"  await query.answer()               telegram_bot.py:372      *)
(*   "edit"    await query.edit_message_text(..)  telegram_bot.py:575      *)
(*   "toast"   await query.answer(text)           telegram_bot.py:580      *)
(*   "done"    the coroutine has returned.                                 *)
(***************************************************************************)
\* the handlers the event loop may have started at the same time
Handlers == {1, 2, 3}

\* a handler that fetches the user's state before its first await and
\* keeps that copy
held_user_state_early(S, user_id) == Some(get_user_state(S, user_id).user_states[user_id])

\* user_state of a handler suspended at "answer": the local variable is
\* assigned after the await has returned, so nothing is held yet
held_user_state(S, user_id) == None

\* the manager as a resumed handler sees it: as it is now, the user's
\* record being the one the handler holds when it holds one
manager_seen(S, task) ==
    IF task.user_state = None THEN S
    ELSE [user_states |-> put_state(S.user_states, task.user, task.user_state[1]),
          disk |-> S.disk]

\* the await a handler stops at next, given what is left for it to send
next_await(edit, answer) ==
    IF edit # None THEN "edit" ELSE IF answer # "" THEN "toast" ELSE "done"

\* the increment buttons of the adjustment screens and one confirm button
RaceTokens ==
    {"ovl:s:" \o slice(slice(exercises[i].name, 40), 30) \o ":+" : i \in ExIdx}
    \cup {"ovl:c:Press banca"}

\* a callback query arrives and its handler runs up to await query.answer()
Arrive(u, data) ==
    /\ Len(tasks) + 1 \in Handlers
    /\ tasks' = Append(tasks, [user |-> u, data |-> data, pc |-> "answer",
                               user_state |-> held_user_state(Store, u),
                               edit |-> None, answer |-> ""])
    /\ request' = Request("callback_query", u, data, 0, None)
    /\ nops' = nops + 1
    /\ UNCHANGED <<storeVars, botVars, sheetVars>>

\* handler h resumes from await query.answer(): lines 374-392 and the chosen
\* step run up to the next await, the write of the override included
Resume(h) ==
    /\ h \in 1..Len(tasks)
    /\ tasks[h].pc = "answer"
    /\ \E r \in {handle_overload_callback(manager_seen(Store, tasks[h]),
                                           tasks[h].user, tasks[h].data)} :
        /\ user_states' = r.S.user_states
        /\ disk' = r.S.disk
        /\ tasks' = [tasks EXCEPT ![h].pc = next_await(r.edit, r.answer),
                                  ![h].edit = r.edit,
                                  ![h].answer = r.answer]
    /\ request' = Request("handle_overload_callback", tasks[h].user, tasks[h].data, h, None)
    /\ UNCHANGED <<storage_ok, ret, botVars, sheetVars, nops>>

\* handler h resumes from await query.edit_message_text(...)
Edited(h) ==
    /\ h \in 1..Len(tasks)
    /\ tasks[h].pc = "edit"
    /\ screen' = [chat |-> tasks[h].user, message |-> tasks[h].edit[1]]
    /\ out' = [answer |-> "", edited |-> TRUE, replied |-> "", prompts |-> 0]
    /\ tasks' = [tasks EXCEPT ![h].pc = next_await(None, tasks[h].answer)]
    /\ request' = Request("edit_message_text", tasks[h].user, tasks[h].data, h, None)
    /\ UNCHANGED <<storeVars, sheetVars, nops>>

\* handler h resumes from its last await query.answer(text) and returns
Toasted(h) ==
    /\ h \in 1..Len(tasks)
    /\ tasks[h].pc = "toast"
    /\ out' = [answer |-> tasks[h].answer, edited |-> tasks[h].edit # None, replied |-> "",
               prompts |-> 0]
    /\ tasks' = [tasks EXCEPT ![h].pc = "done"]
    /\ request' = Request("answer", tasks[h].user, tasks[h].data, h, None)
    /\ UNCHANGED <<storeVars, screen, sheetVars, nops>>

NextRace ==
    \/ \E u \in Users, data \in RaceTokens : Arrive(u, data)
    \/ \E h \in Handlers : Resume(h)
    \/ \E h \in Handlers : Edited(h)
    \/ \E h \in Handlers : Toasted(h)

SpecRace == Init /\ [][NextRace]_vars


(***************************************************************************)
(* Properties                                                              *)
(***************************************************************************)
\* the record get_user_state hands out for u: the stored one, or a new one
StateOf(states, u) == IF u \in DOMAIN states THEN states[u] ELSE NewUserState(u)

\* the effective sets of exercise e for user u
Effective(states, u, e) == get_exercise_sets(StateOf(states, u), e)

\* the file holds the override n for exercise e of user u
OnDisk(file, u, e, n) ==
    /\ file.exists
    /\ str(u) \in DOMAIN file.data
    /\ lower(e.name) \in DOMAIN file.data[str(u)].custom_exercise_sets
    /\ file.data[str(u)].custom_exercise_sets[lower(e.name)] = str(n)

\* the names a callback may carry for an exercise
TokenNames ==
    {slice(exercises[i].name, 30) : i \in ExIdx}
    \cup {slice(exercises[i].name, 40) : i \in ExIdx}
    \cup {"", "Sentadilla"}

\* the catalog exercise that data, read as the adjustment token of direction
\* dir for one of the names, resolves to (a set of one exercise or none)
Adjusted(data, dir) ==
    {find_exercise(q)[1] :
        q \in {q \in TokenNames : /\ data = "ovl:s:" \o q \o ":" \o dir
                                  /\ find_exercise(q) # None}}

\* the step handles a callback query
HandlesCallback == request'.op = "handle_overload_callback" /\ nops' = nops + 1

\* the adjustment screen of exercise e showing n sets, in the chat of u
ShowsAdjust(scr, u, e, n) ==
    /\ scr.chat = u
    /\ scr.message.kind = "ExerciseAdjust"
    /\ scr.message.subject = e.name
    /\ scr.message.shown = n
    /\ \E i \in 1..Len(scr.message.buttons) :
          scr.message.buttons[i].data = "ovl:noop" /\ scr.message.buttons[i].sets = n

\* C1: an increment callback on a catalog exercise with effective sets b
\* leaves effective sets b + 1, the override b + 1 already in the file, and
\* the control re-rendered showing b + 1; so successive increments give
\* b + 1, b + 2, ... in turn.
C1_IncrementPersistsAndRenders ==
    [][HandlesCallback
       => \A e \in Adjusted(request'.data, "+"), u \in {request'.user} :
             \A b \in {Effective(user_states, u, e)} :
                /\ Effective(user_states', u, e) = b + 1
                /\ OnDisk(disk', u, e, b + 1)
                /\ ShowsAdjust(screen', u, e, b + 1)
                /\ out'.edited
                /\ out'.answer = "Series ajustadas a " \o str(b + 1)]_vars

\* C1 witness: two increments from base 3 have given 4 and then 5, the 5
\* is in the file and on the control
C1_Witness ==
    \E u \in Users :
        /\ nops = 2
        /\ request.user = u
        /\ request.data = "ovl:s:" \o exercises[1].name \o ":+"
        /\ exercises[1].default_sets = 3
        /\ Effective(user_states, u, exercises[1]) = 5
        /\ OnDisk(disk, u, exercises[1], 5)
        /\ ShowsAdjust(screen, u, exercises[1], 5)

\* C2: a decrement callback on an exercise with effective sets c leaves
\* max(1, c - 1), never less than 1 (1 stays 1); an increment leaves c + 1
\* whatever c is.
C2_DecrementFloorsAtOne ==
    [][/\ HandlesCallback
          => \A e \in Adjusted(request'.data, "-"), u \in {request'.user} :
                \A c \in {Effective(user_states, u, e)}, n \in {Effective(user_states', u, e)} :
                   /\ n = (IF c - 1 >= 1 THEN c - 1 ELSE 1)
                   /\ n >= 1
                   /\ (c = 1 => n = 1)
                   /\ ShowsAdjust(screen', u, e, n)
       /\ HandlesCallback
          => \A e \in Adjusted(request'.data, "+"), u \in {request'.user} :
                Effective(user_states', u, e) = Effective(user_states, u, e) + 1]_vars

\* C2 witness: the first event is a decrement at 1 set, which stays 1
C2_Witness ==
    \E u \in Users :
        /\ nops = 1
        /\ request.user = u
        /\ request.data = "ovl:s:" \o exercises[2].name \o ":-"
        /\ exercises[2].default_sets = 1
        /\ u \in DOMAIN user_states
        /\ lower(exercises[2].name) \in DOMAIN user_states[u].custom_exercise_sets
        /\ Effective(user_states, u, exercises[2]) = 1
        /\ ShowsAdjust(screen, u, exercises[2], 1)

\* the step is the store operation op on behalf of user u
Calls(op, u) == request'.op = op /\ request'.user = u /\ nops' = nops + 1

\* the users whose overrides a step created or changed
Stored(before, after) ==
    {u \in DOMAIN after :
        \/ u \notin DOMAIN before
        \/ after[u].custom_exercise_sets # before[u].custom_exercise_sets}

\* the override stored for the i-th catalog exercise, or its default
StoredSets(states, u, i) ==
    dict_get(StateOf(states, u).custom_exercise_sets, exercise_keys[i],
             exercises[i].default_sets)

\* C3: while a user has no override for an exercise its effective sets are
\* the catalog default; set_exercise_sets(name, k) makes the effective sets
\* of the exercise whose name equals name up to letter case k, and leaves
\* the effective sets of every other exercise as they were.
C3_OverrideByFoldedName ==
    [][/\ \A u \in Stored(user_states, user_states'), i \in ExIdx :
             exercise_keys[i] \notin DOMAIN user_states'[u].custom_exercise_sets
             => get_exercise_sets(user_states'[u], exercises[i]) = exercises[i].default_sets
       /\ (request'.op = "set_exercise_sets" /\ nops' = nops + 1)
          => \A u \in {request'.user}, key \in {lower(request'.data)} :
                \A i \in ExIdx :
                   IF exercise_keys[i] = key
                   THEN get_exercise_sets(user_states'[u], exercises[i]) = request'.num
                   ELSE StoredSets(user_states', u, i) = StoredSets(user_states, u, i)]_vars

\* C3 witness: the override was set under the upper-case name, and reads
\* back for the catalog exercise while the other exercises keep defaults
C3_Witness ==
    \E u \in DOMAIN user_states :
        /\ request.op = "set_exercise_sets"
        /\ request.user = u
        /\ request.data = upper(exercises[2].name)
        /\ request.data # exercises[2].name
        /\ request.num = 5
        /\ get_exercise_sets(user_states[u], exercises[2]) = 5
        /\ exercises[2].default_sets # 5
        /\ get_exercise_sets(user_states[u], exercises[1]) = exercises[1].default_sets

\* the muscle groups of the catalog, by display name
MuscleNames == {_map_category_to_muscle(exercises[i].category) : i \in ExIdx}

\* the exercises of the catalog that belong to a muscle group
ExercisesOf(muscle) == {i \in ExIdx : _map_category_to_muscle(exercises[i].category) = muscle}

\* C4: for every user, each muscle group of the catalog appears once in the
\* volumes, its volume is the sum of the effective sets of the catalog
\* exercises of that group, and the volumes add up to the sum of the
\* effective sets of all catalog exercises.
C4_VolumesAreSums ==
    \A u \in DOMAIN user_states :
        LET volumes == calculate_muscle_group_volumes(user_states[u])
            eff == [i \in ExIdx |-> get_exercise_sets(user_states[u], exercises[i])]
        IN /\ {volumes[k].muscle : k \in 1..Len(volumes)} = MuscleNames
           /\ Len(volumes) = Cardinality(MuscleNames)
           /\ \A k \in 1..Len(volumes) :
                 volumes[k].sets = SumOver(ExercisesOf(volumes[k].muscle), eff)
           /\ SumOver(1..Len(volumes), [k \in 1..Len(volumes) |-> volumes[k].sets])
                 = SumOver(ExIdx, eff)

\* C4 witness: a user with an override on one of two chest exercises, whose
\* chest volume is the override plus the other exercise's default
C4_Witness ==
    \E u \in DOMAIN user_states :
        LET volumes == calculate_muscle_group_volumes(user_states[u]) IN
        /\ Cardinality(ExercisesOf("Pecho")) = 2
        /\ get_exercise_sets(user_states[u], exercises[1]) = 5
        /\ get_exercise_sets(user_states[u], exercises[3]) = 2
        /\ \E k \in 1..Len(volumes) : volumes[k].muscle = "Pecho" /\ volumes[k].sets = 7

\* six applications of UserState.increment_week
SixWeeksOn(state) ==
    UserState_increment_week(UserState_increment_week(UserState_increment_week(
    UserState_increment_week(UserState_increment_week(UserState_increment_week(state))))))

\* C5: increment_week on a user whose week w is in 1..6 leaves w + 1 when
\* w < 6 and 1 when w = 6, returns and saves that week, and six increments
\* in a row bring the week back to w.
C5_WeekCycles ==
    [][\A u \in Users :
          LET w == StateOf(user_states, u).current_week
              n == IF w < 6 THEN w + 1 ELSE 1
          IN /\ (Calls("increment_week", u) /\ w \in 1..6)
                => /\ user_states'[u].current_week = n
                   /\ ret' = Some(n)
                   /\ disk'.exists
                   /\ disk'.data[str(u)].current_week = str(n)
             /\ (u \in DOMAIN user_states' /\ user_states'[u].current_week \in 1..6)
                => SixWeeksOn(user_states'[u]).current_week = user_states'[u].current_week]_vars

\* C5 witness: an increment at week 6 has returned week 1
C5_Witness ==
    /\ request.op = "increment_week"
    /\ ret = Some(1)
    /\ user_states[request.user].current_week = 1
    /\ nops >= 2

\* C6: saving the records and loading the file in a new manager gives back
\* every user's record unchanged: id, week, day (set or not), split flag
\* and overrides.
C6_SaveLoadRoundTrip ==
    _load_states(_save_states(user_states, NoFile)) = user_states

\* C6 witness: two users are stored, one with a day, the split flag and an
\* override, the other with no day
C6_Witness ==
    /\ DOMAIN user_states = Users
    /\ \E u \in Users : user_states[u].current_day = None
    /\ \E u \in Users :
          /\ user_states[u].current_day # None
          /\ user_states[u].custom_exercise_sets # <<>>
    /\ _load_states(disk) = user_states

\* C7: get_user_state on an id with no record creates the record with week
\* 1, no day, split not configured and no overrides, and saves it at once;
\* on an id with a record it changes neither the records nor the file.
C7_GetOrCreate ==
    [][\A u \in Users :
          Calls("get_user_state", u)
          => IF u \notin DOMAIN user_states
             THEN /\ DOMAIN user_states' = DOMAIN user_states \cup {u}
                  /\ user_states'[u] = [telegram_id |-> u, current_week |-> 1,
                                        current_day |-> None, split_configured |-> FALSE,
                                        custom_exercise_sets |-> <<>>]
                  /\ \A v \in DOMAIN user_states : user_states'[v] = user_states[v]
                  /\ disk'.exists
                  /\ _load_states(disk') = user_states'
             ELSE user_states' = user_states /\ disk' = disk]_vars

\* C7 witness: get_user_state has just created the second record, beside a
\* first one that is no longer the default
C7_Witness ==
    /\ request.op = "get_user_state"
    /\ DOMAIN user_states = Users
    /\ user_states[request.user] = NewUserState(request.user)
    /\ \E v \in Users : user_states[v].current_week # 1
    /\ _load_states(disk) = user_states

\* the rows of the block of a day: after the first row naming the day, up to
\* the next day marker or the end of the column
BlockOf(all_values, day) ==
    LET markers == {i \in 1..Len(all_values) : contains("Dia " \o str(day), all_values[i])}
        first == Least(markers)
        later == {i \in (first + 1)..Len(all_values) : startswith(lower(all_values[i]), "dia")}
    IN IF markers = {} THEN {}
       ELSE IF later = {} THEN (first + 1)..Len(all_values)
       ELSE (first + 1)..(Least(later) - 1)

\* a row labelled with an exercise whose name contains, or is contained in,
\* the given name
NamesExercise(label, name) ==
    /\ label # ""
    /\ contains(lower(name), lower(label)) \/ contains(lower(label), lower(name))

\* the exercise has a row inside the block of the day
HasRowInBlock(sheet, name, day) ==
    /\ sheet # None
    /\ \E i \in BlockOf(sheet[1], day) : NamesExercise(sheet[1][i], name)

\* C8: log_workout for an exercise that has no row inside the block of the
\* entry's day fails and issues no cell write, also when a matching row
\* exists under another day's block.
C8_NoRowNoWrite ==
    [][(request'.op = "log_workout" /\ nops' = nops + 1)
       => \A log \in {request'.log[1]} :
             ~HasRowInBlock(worksheet, log.exercise_name, log.day)
             => log_result' = Some(FALSE) /\ cell_writes' = <<>>]_vars

\* the callback data on the buttons of a message
ButtonData(message) == {message.buttons[k].data : k \in 1..Len(message.buttons)}

\* what each screen of the flow offers
Offers(message) ==
    LET data == ButtonData(message) IN
    CASE message.kind = "MuscleList" ->
            /\ data # {}
            /\ \A d \in data : startswith(d, "ovl:m:")
      [] message.kind = "ExerciseList" ->
            /\ \E d \in data : startswith(d, "ovl:e:")
            /\ {"ovl:back", "ovl:cancel"} \subseteq data
            /\ \A d \in data : startswith(d, "ovl:e:") \/ d \in {"ovl:back", "ovl:cancel"}
      [] message.kind = "ExerciseAdjust" ->
            /\ \E d \in data : startswith(d, "ovl:s:") /\ split_colon(d)[4] = "+"
            /\ \E d \in data : startswith(d, "ovl:s:") /\ split_colon(d)[4] = "-"
            /\ \E d \in data : startswith(d, "ovl:c:")
            /\ "ovl:cancel" \in data
            /\ \A d \in data : \/ startswith(d, "ovl:s:")
                               \/ startswith(d, "ovl:c:")
                               \/ d \in {"ovl:cancel", "ovl:noop"}
      [] message.kind = "Confirmed" -> data = {"ovl:back", "ovl:cancel"}
      [] message.kind = "Cancelled" -> data = {}
      [] OTHER -> TRUE

\* the screen a press of the button carrying d leads to from a screen
Target(kind, d) ==
    CASE kind = "MuscleList" -> "ExerciseList"
      [] kind = "ExerciseList" /\ startswith(d, "ovl:e:") -> "ExerciseAdjust"
      [] kind = "ExerciseList" /\ d = "ovl:back" -> "MuscleList"
      [] kind = "ExerciseAdjust" /\ startswith(d, "ovl:s:") -> "ExerciseAdjust"
      [] kind = "ExerciseAdjust" /\ startswith(d, "ovl:c:") -> "Confirmed"
      [] kind = "ExerciseAdjust" /\ d = "ovl:noop" -> "ExerciseAdjust"
      [] kind = "Confirmed" /\ d = "ovl:back" -> "MuscleList"
      [] d = "ovl:cancel" -> "Cancelled"
      [] OTHER -> "None"

\* C9: every screen of the overload flow offers the buttons of its row of
\* the transition table, and pressing a button the screen offers leads to
\* the screen the table names: MuscleList to ExerciseList; ExerciseList to
\* ExerciseAdjust, MuscleList (back) or Cancelled; ExerciseAdjust to itself
\* (+/-), Confirmed or Cancelled; Confirmed to MuscleList (continue) or
\* Cancelled (finish); Cancelled offers nothing, so no press leaves it.
C9_TransitionTable ==
    [][/\ Offers(screen'.message)
       /\ (/\ request'.op = "handle_overload_callback"
           /\ nops' = nops + 1
           /\ request'.user = screen.chat
           /\ request'.data \in ButtonData(screen.message))
          => /\ screen.message.kind # "Cancelled"
             /\ screen'.chat = screen.chat
             /\ screen'.message.kind = Target(screen.message.kind, request'.data)]_vars

\* C9 witness: the confirm token of an exercise has led the chat to the
\* Confirmed screen, which offers continue and finish
C9_Witness ==
    /\ nops = 3
    /\ screen.chat = request.user
    /\ screen.message.kind = "Confirmed"
    /\ request.data = "ovl:c:" \o screen.message.subject
    /\ ButtonData(screen.message) = {"ovl:back", "ovl:cancel"}

\* the responses that tell the user the token was not understood
InvalidAnswers == {"Error en los datos", "Ejercicio no encontrado", "Operación inválida"}

\* C10: every unknown or malformed token delivered to the overload callback
\* handler, in any state, gets a user-visible not-found or invalid response.
C10_MalformedAnswered ==
    [][(/\ request'.op = "handle_overload_callback"
        /\ nops' = nops + 1
        /\ request'.data \in MalformedTokens)
       => \/ out'.answer \in InvalidAnswers
          \/ out'.edited /\ screen'.message.kind \in {"NoExercises", "ExerciseNotFound"}]_vars

\* the operations of the manager that change a record
MutatingOps ==
    {"get_user_state", "set_current_day", "set_current_week", "configure_split",
     "increment_week", "reset_user", "set_exercise_sets"}

\* C11: with working storage, after every operation of the manager the file
\* decodes to exactly the records in memory, for every user: no change is in
\* memory without being in the file.
C11_PersistedEqualsMemory ==
    storage_ok => _load_states(disk) = user_states

\* C11 witness: reset_user has just put a user back to the defaults while
\* the other user keeps a day and an override, and the file exists
C11_Witness ==
    /\ request.op = "reset_user"
    /\ storage_ok
    /\ disk.exists
    /\ DOMAIN user_states = Users
    /\ user_states[request.user] = NewUserState(request.user)
    /\ \E v \in Users :
          /\ user_states[v].current_day # None
          /\ user_states[v].custom_exercise_sets # <<>>

\* what the caller of the operation gets back when nothing went wrong: the
\* new week from increment_week, None from the other operations
ReturnOnSuccess(op, u, states) ==
    IF op = "increment_week" THEN Some(states[u].current_week) ELSE None

\* C12: when the write of the file fails during a mutating operation, the
\* caller is told so (it does not get back what a successful call gives
\* back), and the record in memory holds the new value, which later reads
\* return.
C12_WriteFailureReported ==
    [][(/\ request'.op \in {"set_current_day", "set_current_week", "configure_split",
                             "increment_week", "reset_user"}
        /\ ~storage_ok)
       => /\ ret' # ReturnOnSuccess(request'.op, request'.user, user_states')
          /\ request'.op = "set_current_day"
                => user_states'[request'.user].current_day = Some(request'.num)
          /\ request'.op = "set_current_week"
                => user_states'[request'.user].current_week = request'.num]_vars

\* with failing storage the record in memory still takes the new value and
\* the file stays as it was
C12_MemoryUpdatedFileKept ==
    [][(request'.op \in MutatingOps /\ ~storage_ok)
       => /\ disk' = disk
          /\ request'.user \in DOMAIN user_states'
          /\ request'.op = "set_current_day"
                => user_states'[request'.user].current_day = Some(request'.num)
          /\ request'.op = "set_current_week"
                => user_states'[request'.user].current_week = request'.num
          /\ request'.op = "set_exercise_sets"
                => Effective(user_states', request'.user, exercises[1]) = request'.num]_vars

\* the file is there and cannot be read as records: it is not JSON, or it
\* has the key "abc" among its users
Unreadable(file) ==
    file.exists /\ (~file.parses \/ "abc" \in DOMAIN file.data)

\* C13: a start over an unreadable or corrupt file gives a store with no
\* record at all, not even those the file holds under readable keys; the
\* start does not fail, and the operations that follow work as on an empty
\* store (a lookup creates the default record, a setter sets it).
C13_UnreadableStartsEmpty ==
    [][(request'.op = "restart" /\ Unreadable(disk))
       => /\ user_states' = <<>>
          /\ \A u \in Users :
                LET S == [user_states |-> user_states', disk |-> disk'] IN
                /\ get_user_state(S, u).user_states = (u :> NewUserState(u))
                /\ set_current_day(S, u, 4).user_states
                      = (u :> [NewUserState(u) EXCEPT !.current_day = Some(4)])]_vars

\* C13 witness: the store has just started empty over a file that holds a
\* readable record of a user with a day beside the key "abc"
C13_Witness ==
    /\ request.op = "restart"
    /\ user_states = <<>>
    /\ disk.exists /\ disk.parses
    /\ "abc" \in DOMAIN disk.data
    /\ \E u \in Users :
          /\ str(u) \in DOMAIN disk.data
          /\ disk.data[str(u)].current_day = "4"

\* the number an argument stands for, read digit by digit: None when it is
\* not a whole number
NumberOf(arg) ==
    CASE arg \in {"0", "2", "3", "4", "5", "6", "7"} -> Some(int(arg))
      [] arg = "-1" -> Some(0 - 1)
      [] arg = "+3" -> Some(3)
      [] OTHER -> None

\* the argument of a command is there and is not a number of lo..hi
BadArg(arg, count, lo, hi) ==
    /\ count > 0
    /\ NumberOf(arg) = None \/ NumberOf(arg)[1] < lo \/ NumberOf(arg)[1] > hi

CorrectionMessages ==
    {"Please provide a valid day number (1-4).", "Please choose a day between 1 and 4.",
     "Please provide a valid week number (1-6).", "Please choose a week between 1 and 6."}

\* the record of u after the step is the record before it (a new one when
\* there was none) with the field changes of the step
RecordBecomes(u, day, week) ==
    /\ u \in DOMAIN user_states'
    /\ user_states'[u] = [StateOf(user_states, u) EXCEPT !.current_day = day,
                                                         !.current_week = week]
    /\ \A v \in DOMAIN user_states' \ {u} :
          v \in DOMAIN user_states /\ user_states'[v] = user_states[v]

\* C14: /setday with an argument that is not a number of 1..4, and /setweek
\* with one that is not a number of 1..6, reply with a correction message
\* and leave every record as it was; with a number in range they set that
\* field of the user to that number and leave the other field and the
\* overrides as they were.
C14_DayWeekValidated ==
    [][/\ request'.op = "setday_command"
          => IF BadArg(request'.data, request'.num, 1, 4)
             THEN out'.replied \in CorrectionMessages /\ user_states' = user_states
             ELSE request'.num > 0
                  => RecordBecomes(request'.user, NumberOf(request'.data),
                                   StateOf(user_states, request'.user).current_week)
       /\ request'.op = "setweek_command"
          => IF BadArg(request'.data, request'.num, 1, 6)
             THEN out'.replied \in CorrectionMessages /\ user_states' = user_states
             ELSE request'.num > 0
                  => RecordBecomes(request'.user,
                                   StateOf(user_states, request'.user).current_day,
                                   NumberOf(request'.data)[1])]_vars

\* C14 witness: /setweek 7 has just been refused for a user who keeps the
\* day 4 an earlier /setday gave and an override
C14_Witness ==
    /\ request.op = "setweek_command"
    /\ request.data = "7"
    /\ out.replied = "Please choose a week between 1 and 6."
    /\ request.user \in DOMAIN user_states
    /\ user_states[request.user].current_day = Some(4)
    /\ user_states[request.user].current_week = 1
    /\ user_states[request.user].custom_exercise_sets # <<>>

\* the catalog positions whose name, letter case aside, is the query
SameName(query) == {i \in ExIdx : lower(exercises[i].name) = lower(query)}

\* the catalog positions whose name, letter case aside, contains the query
\* or is contained in it
Overlaps(query) ==
    {i \in ExIdx : \/ contains(lower(query), lower(exercises[i].name))
                   \/ contains(lower(exercises[i].name), lower(query))}

\* C15: find_exercise(query) returns the exercise whose name is the query up
\* to letter case when there is one, even when an earlier exercise of the
\* catalog overlaps the query; otherwise the first exercise, in catalog
\* order, whose name contains the query or is contained in it; otherwise
\* None.
C15_ExactThenFirstPartial ==
    [][request'.op = "find_exercise"
       => LET q == request'.data IN
          IF SameName(q) # {}
          THEN \E i \in SameName(q) : ret' = Some(exercises[i])
          ELSE IF Overlaps(q) # {}
          THEN \E i \in Overlaps(q) :
                  /\ \A j \in Overlaps(q) : i <= j
                  /\ ret' = Some(exercises[i])
          ELSE ret' = None]_vars

\* C15 witness: the long name in capitals has been looked up and found,
\* although the first exercise of the catalog, "Press banca", is contained
\* in it
C15_Witness ==
    /\ request.op = "find_exercise"
    /\ request.data = "PRESS BANCA INCLINADO CON MANCUERNAS"
    /\ contains(lower(exercises[1].name), lower(request.data))
    /\ ret = Some(exercises[3])

\* a field of the form <int> x <digits>[-<digits>], blanks around it and
\* around the x aside: its sets and rep range, or None when the field is
\* not of that form
PatternOf(field) ==
    LET s == strip(field)
        n1 == span(s, DigitChars)
        at_x == strip(drop(s, n1))
        at_reps == strip(drop(at_x, 1))
        n2 == span(at_reps, DigitChars)
        upper_part == drop(at_reps, n2)
        n3 == span(drop(upper_part, 1), DigitChars)
    IN IF /\ n1 > 0 /\ at_x # "" /\ CharAt(at_x, 1) = "x" /\ n2 > 0
          /\ \/ upper_part = ""
             \/ CharAt(upper_part, 1) = "-" /\ n3 > 0 /\ n3 = Len(upper_part) - 1
       THEN Some([sets |-> int(SubSeq(s, 1, n1)), reps |-> at_reps])
       ELSE None

\* the day a marker row announces
MarkerDay(row) ==
    CASE row[1] = "Dia 1" -> Some(1)
      [] row[1] = "Dia 2" -> Some(2)
      [] row[1] = "Dia  3 - Pull" -> Some(3)
      [] row[1] = "Dia 5" -> Some(5)
      [] OTHER -> None

\* the weight a cell gives, in hundredths: a number, or None
WeightOf(cell) ==
    CASE cell = "60" -> Some(6000)
      [] cell = "62.5" -> Some(6250)
      [] OTHER -> None

\* C16: every exercise row after a marker "Dia N" becomes an exercise of
\* day N; its sets and rep range are those of its "sets x reps" field when
\* the field has the form <int> x <digits>[-<digits>], and exactly 3 sets
\* and "8-12" when the field has another form or is absent; its weight is
\* the number of the weight field, and unset when that field is empty or
\* not a number.
C16_RowsBecomeExercises ==
    [][request'.op = "_load_exercises"
       => LET rows == request'.log[1]
              row == rows[6]
              day == IF MarkerDay(rows[5]) # None THEN MarkerDay(rows[5]) ELSE Some(2)
              field == IF Len(row) > 3 THEN PatternOf(row[4]) ELSE None
              catalog == ret'[1]
          IN (row # <<>> /\ strip(row[1]) # "" /\ day[1] \in 1..4)
             => /\ ~catalog.raised
                /\ \E i \in 1..Len(catalog.values) :
                      /\ catalog.values[i].name = strip(row[1])
                      /\ catalog.values[i].day = day[1]
                      /\ catalog.values[i].default_sets
                            = (IF field = None THEN 3 ELSE field[1].sets)
                      /\ catalog.values[i].default_rep_range
                            = (IF field = None THEN "8-12" ELSE field[1].reps)
                      /\ catalog.values[i].default_weight
                            = (IF Len(row) > 2 THEN WeightOf(row[3]) ELSE None)]_vars

\* the rows on which the loader departs from the form: a rep range made of
\* hyphens, or with a hyphen too many
C16_OffPatternFields == {"5 x -", "4 x 8-", "4 x 8-10-12"}

\* apart from those fields every row of the tables loads as C16 says
C16_HoldsOnOtherFields ==
    [][(request'.op = "_load_exercises"
        /\ (Len(request'.log[1][6]) > 3 => request'.log[1][6][4] \notin C16_OffPatternFields))
       => LET rows == request'.log[1]
              row == rows[6]
              day == IF MarkerDay(rows[5]) # None THEN MarkerDay(rows[5]) ELSE Some(2)
              field == IF Len(row) > 3 THEN PatternOf(row[4]) ELSE None
              catalog == ret'[1]
          IN (row # <<>> /\ strip(row[1]) # "" /\ day[1] \in 1..4)
             => /\ ~catalog.raised
                /\ \E i \in 1..Len(catalog.values) :
                      /\ catalog.values[i].name = strip(row[1])
                      /\ catalog.values[i].day = day[1]
                      /\ catalog.values[i].default_sets
                            = (IF field = None THEN 3 ELSE field[1].sets)
                      /\ catalog.values[i].default_rep_range
                            = (IF field = None THEN "8-12" ELSE field[1].reps)
                      /\ catalog.values[i].default_weight
                            = (IF Len(row) > 2 THEN WeightOf(row[3]) ELSE None)]_vars

\* the log and the failing call of the log_workout just handled
TheLog == request.log[1]

\* the cells a log fills, in the order weight, series, notes, with the
\* column that week and field give: 3 + (week - 1) * 3 + 0, 1 or 2
CellsOf(log, row) ==
    LET first == 3 + (log.week - 1) * 3 IN
    (IF log.weight # None THEN <<[row |-> row, col |-> first, value |-> str(log.weight[1])]>>
     ELSE <<>>)
    \o <<[row |-> row, col |-> first + 1, value |-> str(log.sets) \o " x " \o log.reps]>>
    \o (IF log.notes # "" THEN <<[row |-> row, col |-> first + 2, value |-> log.notes]>>
        ELSE <<>>)

\* C17: the column of (week, field) is 3 + (week - 1) * 3 + offset with
\* offset 0 for weight, 1 for series and 2 for notes, for every week of
\* 1..6, so a week has three columns next to each other in that order; the
\* cells log_workout writes are in those columns.
C17_ColumnOfWeekField ==
    /\ \A week \in 1..6 :
          /\ _get_column_for_week(week, "peso") = 3 + (week - 1) * 3
          /\ _get_column_for_week(week, "series") = 3 + (week - 1) * 3 + 1
          /\ _get_column_for_week(week, "notas") = 3 + (week - 1) * 3 + 2
    /\ (request.op = "log_workout" /\ log_result = Some(TRUE))
          => /\ cell_writes # <<>>
             /\ \A i \in 1..Len(cell_writes) :
                   \E j \in 1..Len(CellsOf(TheLog, cell_writes[i].row)) :
                      cell_writes[i] = CellsOf(TheLog, cell_writes[i].row)[j]

\* C17 witness: a log of week 6 with weight and notes has been written to
\* the columns 18, 19 and 20
C17_Witness ==
    /\ request.op = "log_workout"
    /\ TheLog.week = 6
    /\ log_result = Some(TRUE)
    /\ Len(cell_writes) = 3
    /\ cell_writes[1].col = 18 /\ cell_writes[2].col = 19 /\ cell_writes[3].col = 20

\* C20: when the row is found, log_workout writes weight (when there is
\* one), series as "<sets> x <reps>" and notes (when there are some), in
\* that order, in the row found and the columns of the log's week; when a
\* write fails the writes before it stay, no later cell is written and
\* the result is failure; the result is success only when every write
\* went through.
C20_WritesInOrderNoRollback ==
    (/\ request.op = "log_workout"
     /\ worksheet # None
     /\ _find_exercise_row(worksheet, TheLog.exercise_name, TheLog.day) # None)
    => LET row == _find_exercise_row(worksheet, TheLog.exercise_name, TheLog.day)[1]
           cells == CellsOf(TheLog, row)
           fail_at == request.num
       IN IF fail_at \in 1..Len(cells)
          THEN cell_writes = SubSeq(cells, 1, fail_at - 1) /\ log_result = Some(FALSE)
          ELSE cell_writes = cells /\ log_result = Some(TRUE)

\* C20 witness: the third write of a log with weight and notes failed; the
\* weight and the series are written and the result is failure
C20_Witness ==
    /\ request.op = "log_workout"
    /\ request.num = 3
    /\ TheLog.weight # None /\ TheLog.notes # ""
    /\ Len(cell_writes) = 2
    /\ cell_writes[1].value = "60" /\ cell_writes[2].value = "3 x 10"
    /\ log_result = Some(FALSE)

\* C18: _find_exercise_row never searches past the next day block: a row
\* it returns is after the header row of the day asked for and before the
\* next day header (or the end of column A).
C18_RowInsideDayBlock ==
    (request.op = "_find_exercise_row" /\ ret # None)
    => /\ worksheet # None
       /\ ret[1] \in BlockOf(worksheet[1], request.num)

\* C18 witness: "Press banca" of day 3 was found in row 8 of the titled
\* sheet, which has the same name in row 3 under day 1
C18_Witness ==
    /\ request.op = "_find_exercise_row"
    /\ request.data = "Press banca"
    /\ request.num = 3
    /\ worksheet = Some(SheetTitled)
    /\ ret = Some(8)

\* the rows of the block of the day whose label contains the name or is
\* contained in it, letter case aside
FuzzyRows(all_values, name, day) ==
    {i \in BlockOf(all_values, day) :
        \/ contains(lower(name), lower(all_values[i]))
        \/ contains(lower(all_values[i]), lower(name))}

\* C19: _find_exercise_row returns None only when no row of the block of
\* the day matches the name: when some row between the day header and the
\* next day header (or the end of column A) has a label that contains the
\* name or is contained in it, the first such row is returned, the last
\* row of the column included.
C19_FirstMatchReturned ==
    (request.op = "_find_exercise_row" /\ worksheet # None)
    => LET rows == FuzzyRows(worksheet[1], request.data, request.num)
       IN IF rows = {} THEN ret = None ELSE ret = Some(Least(rows))

\* leaving the last row of the column out, the first matching row of the
\* block is what _find_exercise_row returns
C19_HoldsBeforeLastRow ==
    (request.op = "_find_exercise_row" /\ worksheet # None)
    => LET rows == FuzzyRows(worksheet[1], request.data, request.num)
                      \ {Len(worksheet[1])}
       IN IF rows = {} THEN ret = None ELSE ret = Some(Least(rows))

\* the answer of the service gives no exercise to log: it raised, holds no
\* object, is not JSON, lacks one of found, exercise_name, sets and reps,
\* says found = false, or names an exercise no catalog name overlaps
NothingUnderstood(response) ==
    \/ response.raises \/ ~response.object \/ ~response.json
    \/ \E k \in {"found", "exercise_name", "sets", "reps"} : k \notin DOMAIN response.fields
    \/ ~response.fields.found
    \/ Overlaps(response.fields.exercise_name) = {}

\* C21: when the interpretation service raises, or its answer does not
\* parse (no JSON object, invalid JSON, missing fields), says found = false
\* or names an exercise that is not in the catalog, a free-text message of a
\* user with a day produces no workout log and no cell write, and the user
\* gets the could-not-understand reply.
C21_UnparsedMeansNotFound ==
    [][(/\ request'.op = "handle_message"
        /\ request'.data \notin {"1", "2", "3", "4"}
        /\ StateOf(user_states, request'.user).current_day # None
        /\ NothingUnderstood(request'.log[1]))
       => /\ cell_writes' = <<>>
          /\ log_result' = None
          /\ out'.replied = "I couldn't understand that exercise. Try being more specific!"
          /\ user_states' = user_states]_vars

\* C21 witness: with the sheet connected, the service answered found =
\* false for "Press banca" to a user of day 4; nothing was written and the
\* user has the could-not-understand reply
C21_Witness ==
    /\ request.op = "handle_message"
    /\ worksheet # None
    /\ request.log[1].json
    /\ "found" \in DOMAIN request.log[1].fields
    /\ ~request.log[1].fields.found
    /\ user_states[request.user].current_day = Some(4)
    /\ cell_writes = <<>>
    /\ out.replied = "I couldn't understand that exercise. Try being more specific!"

\* how many entries of the sequence of exercises have the name, letter
\* case aside
Occurrences(list, name) ==
    Cardinality({i \in 1..Len(list) : lower(list[i].name) = lower(name)})

\* C22: in a catalog that loaded, the names are unique letter case aside
\* and every exercise is of one day only: its name is in the list of
\* exactly one day, once, and the exercises of the catalog are exactly
\* those of the four day lists, also when the table repeats a name under
\* two day markers.
C22_OneDayPerName ==
    [][(request'.op = "_load_exercises" /\ ~ret'[1].raised)
       => LET catalog == ret'[1]
              all == all_exercises(catalog)
          IN /\ \A i \in 1..Len(all) : Occurrences(all, all[i].name) = 1
             /\ \A i \in 1..Len(all) :
                   /\ \E d \in 1..4 :
                         Occurrences(exercises_for_day(catalog, d), all[i].name) = 1
                   /\ \A d, e \in 1..4 :
                         (/\ Occurrences(exercises_for_day(catalog, d), all[i].name) > 0
                          /\ Occurrences(exercises_for_day(catalog, e), all[i].name) > 0)
                         => d = e
             /\ {all[i] : i \in 1..Len(all)}
                  = UNION {{exercises_for_day(catalog, d)[j] :
                              j \in 1..Len(exercises_for_day(catalog, d))} : d \in 1..4}]_vars

\* for the tables that give every name once, the catalog has every name in
\* one day list, once, and holds exactly the exercises of the day lists
C22_HoldsWithoutRepeats ==
    [][(/\ request'.op = "_load_exercises"
        /\ ~ret'[1].raised
        /\ request'.log[1][6] # <<>> => lower(request'.log[1][6][1]) # "sentadilla")
       => LET catalog == ret'[1]
              all == all_exercises(catalog)
          IN /\ \A i \in 1..Len(all) : Occurrences(all, all[i].name) = 1
             /\ \A i \in 1..Len(all) :
                   Cardinality({d \in 1..4 :
                       Occurrences(exercises_for_day(catalog, d), all[i].name) = 1}) = 1
             /\ {all[i] : i \in 1..Len(all)}
                  = UNION {{exercises_for_day(catalog, d)[j] :
                              j \in 1..Len(exercises_for_day(catalog, d))} : d \in 1..4}]_vars

\* C23: from an empty store, after any commands, text messages and
\* callbacks of any users, every record has a week of 1..6 and a day that
\* is unset or of 1..4.
C23_WeekAndDayInRange ==
    \A u \in DOMAIN user_states :
        /\ user_states[u].current_week \in 1..6
        /\ user_states[u].current_day = None \/ user_states[u].current_day[1] \in 1..4

\* C23 witness: /nextweek has just taken a user with day 4 from week 6
\* to week 1
C23_Witness ==
    /\ request.op = "nextweek_command"
    /\ out.replied = "Moved to Week 1"
    /\ user_states[request.user].current_week = 1
    /\ user_states[request.user].current_day = Some(4)

\* C24: from an empty store, after any events every override of every user
\* is a whole number of at least 1 under a key that is the lower-cased name
\* of an exercise of the catalog.
C24_OverridesWellFormed ==
    \A u \in DOMAIN user_states :
        \A key \in DOMAIN user_states[u].custom_exercise_sets :
            /\ user_states[u].custom_exercise_sets[key] \in Nat \ {0}
            /\ \E i \in ExIdx : key = exercise_keys[i]

\* C24 witness: a decrement of "Curl martillo", whose default is 1 set, has
\* just stored the override 1 under "curl martillo"
C24_Witness ==
    /\ request.op = "handle_overload_callback"
    /\ request.data = "ovl:s:Curl martillo:-"
    /\ exercises[2].default_sets = 1
    /\ DOMAIN user_states[request.user].custom_exercise_sets = {"curl martillo"}
    /\ user_states[request.user].custom_exercise_sets["curl martillo"] = 1

\* the callback just handled carried a token rendered for exercise e, and
\* the flow went on with e: the screen is about e, and an adjustment token
\* has written the override of e
FlowKeepsTo(e) ==
    LET name40 == slice(e.name, 40)
        picked == request'.data = "ovl:e:" \o name40
        adjusted == request'.data \in {"ovl:s:" \o slice(name40, 30) \o ":+",
                                        "ovl:s:" \o slice(name40, 30) \o ":-"}
        confirmed == request'.data = "ovl:c:" \o slice(name40, 40)
    IN /\ (picked \/ adjusted \/ confirmed) => screen'.message.subject = e.name
       /\ adjusted => lower(e.name) \in
                         DOMAIN user_states'[request'.user].custom_exercise_sets

\* C25: for every exercise of the catalog, the tokens rendered for it along
\* the flow (the exercise token cut to 40 characters, the increment and
\* decrement tokens cut to 30, the confirm token cut to 40) resolve through
\* find_exercise to that exercise, so the exercise adjusted and confirmed is
\* the one the user chose.
C25_TokensResolveToChosen ==
    [][HandlesCallback => \A i \in ExIdx : FlowKeepsTo(exercises[i])]_vars

\* for the exercises whose name has at most 30 characters the tokens do
\* come back to the exercise
C25_HoldsForShortNames ==
    [][HandlesCallback
       => \A i \in ExIdx : Len(exercises[i].name) <= 30 => FlowKeepsTo(exercises[i])]_vars

\* the exercise each token of the race increments (none for the confirm token)
IncrementOf == [data \in RaceTokens |-> Adjusted(data, "+")]

\* the handlers of tasks that serve an increment of exercise e for user u
\* and have run past their write of the override
Incremented(u, e) ==
    {h \in 1..Len(tasks) :
        /\ tasks[h].user = u
        /\ tasks[h].pc \in {"edit", "toast", "done"}
        /\ IncrementOf[tasks[h].data] = {e}}

\* C26: increment callbacks for the same user and exercise all take effect
\* however their handlers are interleaved at their awaits: the override in
\* memory and in the file is the starting effective sets (the default, no
\* override being stored at the start) plus the number of increments whose
\* handler has written, plus 2 for two of them.
C26_NoLostUpdate ==
    \A u \in Users : \A i \in ExIdx :
        LET n == Cardinality(Incremented(u, exercises[i])) IN
        n > 0 =>
            /\ Effective(user_states, u, exercises[i]) = exercises[i].default_sets + n
            /\ OnDisk(disk, u, exercises[i], exercises[i].default_sets + n)

\* two increments of one exercise for one user, both handlers suspended at
\* the edit of their message after their write, and the override two over
\* the default
C26_Witness ==
    /\ Len(tasks) >= 2
    /\ tasks[1].user = tasks[2].user
    /\ tasks[1].data = tasks[2].data
    /\ tasks[1].pc = "edit" /\ tasks[2].pc = "edit"
    /\ Incremented(tasks[1].user, exercises[2]) = {1, 2}
    /\ Effective(user_states, tasks[1].user, exercises[2]) = exercises[2].default_sets + 2

\* where the loop over the catalog first meets an exercise of the muscle group
FirstSeen(muscle) == CHOOSE i \in ExercisesOf(muscle) : \A j \in ExercisesOf(muscle) : i <= j

\* C27: for every user, the volumes come sorted by total sets, largest
\* first, and muscle groups of equal total come in the order in which the
\* loop over the catalog first meets their category.
C27_VolumesSortedStable ==
    \A u \in DOMAIN user_states :
        LET volumes == get_muscle_groups(user_states[u]) IN
        \A j \in 1..Len(volumes) : \A k \in (j + 1)..Len(volumes) :
            /\ volumes[j].sets >= volumes[k].sets
            /\ volumes[j].sets = volumes[k].sets
                  => FirstSeen(volumes[j].muscle) < FirstSeen(volumes[k].muscle)

\* C27 witness: a user whose two muscle groups have equal totals through an
\* override, and another order of totals than the catalog's for some user
C27_Witness ==
    /\ \E u \in DOMAIN user_states :
          LET volumes == get_muscle_groups(user_states[u]) IN
          /\ Len(volumes) = 2
          /\ volumes[1].sets = volumes[2].sets
          /\ user_states[u].custom_exercise_sets # <<>>
    /\ \E u \in DOMAIN user_states :
          LET volumes == get_muscle_groups(user_states[u]) IN
          /\ volumes[1].sets > volumes[2].sets
          /\ FirstSeen(volumes[1].muscle) > FirstSeen(volumes[2].muscle)

\* the place of a catalog exercise in the loop over the catalog
CatalogIndex(e) == CHOOSE i \in ExIdx : exercises[i] = e

\* the total the volumes give for a muscle group (0 when it is not there)
VolumeOf(state, muscle) ==
    LET volumes == get_muscle_groups(state)
        at == {k \in 1..Len(volumes) : volumes[k].muscle = muscle}
    IN IF at = {} THEN 0 ELSE volumes[CHOOSE k \in at : TRUE].sets

\* the display names asked for: those of the catalog and one of no exercise
AskedMuscles == MuscleNames \cup {"Gemelos"}

DisplayNames == {"Deltoides", "Pecho", "Dorsal ancho", "Bíceps", "Tríceps", "Piernas", "Otros"}

\* C29: the two tables are one two-way mapping between the seven categories
\* and the seven display names: the name shown for a category maps back to
\* the category, the category of a display name is shown as that name, and
\* the reverse lookup of a name that is no display name returns the name.
C29_TwoWayMapping ==
    /\ request.op = "_map_category_to_muscle" /\ request.data \in Categories
          => /\ ret[1] \in DisplayNames
             /\ _reverse_muscle_mapping(ret[1]) = request.data
    /\ request.op = "_reverse_muscle_mapping" /\ request.data \in DisplayNames
          => /\ ret[1] \in Categories
             /\ _map_category_to_muscle(ret[1]) = request.data
    /\ request.op = "_reverse_muscle_mapping" /\ request.data \notin DisplayNames
          => ret = Some(request.data)
    /\ Cardinality(Categories) = 7
    /\ Cardinality(DisplayNames) = 7

\* C29 witness: an accented display name has been looked up and gave its
\* category
C29_Witness ==
    /\ request.op = "_reverse_muscle_mapping"
    /\ request.data = "Bíceps"
    /\ ret = Some("Biceps")
    /\ _map_category_to_muscle("Biceps") = "Bíceps"

\* the sum of the effective sets of a muscle group for user u in states
GroupTotal(states, u, muscle) ==
    SumOver(ExercisesOf(muscle), [i \in ExIdx |-> Effective(states, u, exercises[i])])

\* the message scr shows the overrides of states: a muscle list the totals
\* of the groups, an exercise list the sets of its exercises and the total
\* of its group, an adjustment the sets of its exercise, a confirmation the
\* sets of its exercise and the total of its group
ShowsLatest(scr, states) ==
    LET u == scr.chat
        msg == scr.message
        named(name) == {i \in ExIdx : exercises[i].name = name}
    IN /\ msg.kind = "MuscleList"
            => \A k \in 1..Len(msg.buttons) :
                  msg.buttons[k].sets = GroupTotal(states, u, msg.buttons[k].name)
       /\ msg.kind = "ExerciseList"
            => /\ msg.volume = GroupTotal(states, u, msg.muscle)
               /\ \A k \in 1..Len(msg.buttons) :
                     startswith(msg.buttons[k].data, "ovl:e:")
                        => \E i \in named(msg.buttons[k].name) :
                              msg.buttons[k].sets = Effective(states, u, exercises[i])
       /\ msg.kind \in {"ExerciseAdjust", "Confirmed"}
            => \E i \in named(msg.subject) :
                  msg.shown = Effective(states, u, exercises[i])
       /\ msg.kind = "Confirmed"
            => msg.volume = GroupTotal(states, u, msg.muscle)

\* the update just handled has sent or edited a message of the flow
Renders ==
    /\ request'.op \in {"overload_command", "handle_overload_callback"}
    /\ nops' = nops + 1
    /\ out'.edited \/ out'.replied = "Elige un musculo"

\* C30: nothing is kept from an earlier computation: every message of the
\* flow (the muscle list with the volumes, the exercise list with the
\* exercises of a muscle group, the adjustment, the confirmation) is built
\* from the overrides as they are when it is built, the write of the same
\* update included.
C30_NothingCached == [][Renders => ShowsLatest(screen', user_states')]_vars

\* C30 witness: after an increment of a chest exercise the user is back at
\* the muscle list, which shows the chest total with the override in it
C30_Witness ==
    /\ screen.message.kind = "MuscleList"
    /\ request.data = "ovl:back"
    /\ Effective(user_states, screen.chat, exercises[1]) = 4
    /\ \E k \in 1..Len(screen.message.buttons) :
          /\ screen.message.buttons[k].name = "Pecho"
          /\ screen.message.buttons[k].sets = 6

\* the week a progress summary was asked for
AskedWeek == CHOOSE w \in Weeks : str(w) = request.data

\* the rows of the block of a day in column A: those after the first row
\* holding the day's marker, up to the next marker, a blank row or the end
\* of the column, the last row of the column included
BlockRows(all_values, day) ==
    LET markers == {i \in 1..Len(all_values) : contains("Dia " \o str(day), all_values[i])}
        marker == Least(markers)
        ends == {i \in (marker + 1)..Len(all_values) :
                    all_values[i] = "" \/ startswith(all_values[i], "Dia")}
    IN IF markers = {} THEN {}
       ELSE (marker + 1)..(IF ends = {} THEN Len(all_values) ELSE Least(ends) - 1)

\* the line of the summary about a row: its label and what the week's
\* series cell holds, "Not logged" when it holds nothing
LineStart(all_values, writes, week, row) ==
    LET series == cell_value(writes, row, _get_column_for_week(week, "series"))
    IN "- " \o all_values[row] \o ": "
       \o (IF series = None \/ series = Some("") THEN "Not logged" ELSE series[1])

\* C31: the progress summary of a day and week has one line for every row
\* of the day's block, the last row of the column included, with the week's
\* series cell or "Not logged" for a cell holding nothing; when no row holds
\* the day's marker the summary is the not-found result.
C31_ProgressListsBlock ==
    (request.op = "get_day_progress" /\ worksheet # None)
    => LET all_values == worksheet[1]
           day == request.num
       IN /\ \A row \in BlockRows(all_values, day) :
                contains(LineStart(all_values, cell_writes, AskedWeek, row), ret[1])
          /\ (\A i \in 1..Len(all_values) : ~contains("Dia " \o str(day), all_values[i]))
                => ret[1] = "Day " \o str(day) \o " not found in sheet"

\* the same for the rows that are not the last row of the column
C31_HoldsBeforeLastRow ==
    (request.op = "get_day_progress" /\ worksheet # None)
    => LET all_values == worksheet[1]
           day == request.num
       IN /\ \A row \in BlockRows(all_values, day) \ {Len(all_values)} :
                contains(LineStart(all_values, cell_writes, AskedWeek, row), ret[1])
          /\ (\A i \in 1..Len(all_values) : ~contains("Dia " \o str(day), all_values[i]))
                => ret[1] = "Day " \o str(day) \o " not found in sheet"

\* C32: loading a readable program table never fails on a malformed row:
\* whatever the sets x reps field, the weight field, the length of the row
\* and the day marker before it (without a number, or with a number outside
\* 1..4), _load_exercises completes and raises nothing.
C32_LoadNeverRaises ==
    request.op = "_load_exercises" => ~ret[1].raised

\* for tables whose markers carry no number or a number of 1..4 the loading
\* raises nothing
C32_HoldsForDaysInRange ==
    (/\ request.op = "_load_exercises"
     /\ MarkerDay(request.log[1][5]) \in {None} \cup {Some(d) : d \in 1..4})
    => ~ret[1].raised

\* a manager that holds the record of user u and nothing else: no other
\* user, no file
Alone(u) == [user_states |-> (u :> StateOf(user_states, u)), disk |-> NoFile]

ShowsOnly ==
    /\ nops' = nops + 1
    /\ \/ request'.op \in {"overload_command", "status_command", "today_command",
                           "week_command", "schedule_command", "start_command",
                           "help_command"}
       \/ /\ request'.op = "handle_overload_callback"
          /\ \/ startswith(request'.data, "ovl:m:")
             \/ startswith(request'.data, "ovl:e:")
             \/ startswith(request'.data, "ovl:c:")
             \/ request'.data \in {"ovl:back", "ovl:cancel"}

\* the week, the day and the overrides of every record are kept
RecordsKept ==
    \A t \in DOMAIN user_states :
        /\ t \in DOMAIN user_states'
        /\ user_states'[t].custom_exercise_sets = user_states[t].custom_exercise_sets
        /\ user_states'[t].current_week = user_states[t].current_week
        /\ user_states'[t].current_day = user_states[t].current_day

\* C34: only the increment and decrement tokens write overrides: a muscle,
\* exercise, confirm, back or cancel token and the commands overload,
\* status, today, week, schedule, start and help leave the overrides, the
\* week and the day of every existing record as they are; a confirm writes
\* nothing and a cancel takes no adjustment back.
C34_OnlyAdjustmentsWrite == [][ShowsOnly => RecordsKept]_vars

\* C34 witness: a cancel handled for a user whose override, made earlier in
\* the flow, is still there
C34_Witness ==
    /\ request.op = "handle_overload_callback"
    /\ request.data = "ovl:cancel"
    /\ screen.message.kind = "Cancelled"
    /\ Effective(user_states, request.user, exercises[1]) = exercises[1].default_sets + 1

\* an event of a user has just been handled: a command, a text or a callback
HandlesEventOf(u) ==
    /\ nops' = nops + 1
    /\ request'.user = u
    /\ request'.op \in {"setday_command", "setweek_command", "nextweek_command",
                        "status_command", "handle_message", "overload_command",
                        "handle_overload_callback"}

\* the record of user t is the same before and after, in the manager (or
\* absent from it) and in the file (or absent from it)
UntouchedRecord(t) ==
    /\ (t \in DOMAIN user_states) = (t \in DOMAIN user_states')
    /\ t \in DOMAIN user_states
          => /\ user_states'[t].current_week = user_states[t].current_week
             /\ user_states'[t].current_day = user_states[t].current_day
             /\ user_states'[t].custom_exercise_sets = user_states[t].custom_exercise_sets
    /\ (str(t) \in DOMAIN disk.data) = (str(t) \in DOMAIN disk'.data)
    /\ str(t) \in DOMAIN disk.data
          => /\ disk'.data[str(t)].current_week = disk.data[str(t)].current_week
             /\ disk'.data[str(t)].current_day = disk.data[str(t)].current_day
             /\ disk'.data[str(t)].custom_exercise_sets
                  = disk.data[str(t)].custom_exercise_sets

\* C35: an event handled for one user changes the week, the day and the
\* overrides of no other user, neither in the manager nor in the file,
\* although every save writes the records of all users again.
C35_UsersIsolated ==
    [][\A a \in Users : HandlesEventOf(a) => \A b \in Users \ {a} : UntouchedRecord(b)]_vars

\* C35 witness: an override was just written for one user while the file
\* holds another user's record with a week of its own
C35_Witness ==
    /\ request.op = "handle_overload_callback"
    /\ request.user = 5
    /\ user_states[5].custom_exercise_sets # <<>>
    /\ 12 \in DOMAIN user_states
    /\ user_states[12].current_week # 1
    /\ "12" \in DOMAIN disk.data
    /\ disk.data["12"].current_week = json_int(user_states[12].current_week)

\* a text message has just been handled
HandlesText == request'.op = "handle_message" /\ nops' = nops + 1

\* the handler ran no agent and made no call to the sheet
NoOutsideCall == out'.prompts = 0 /\ log_result' = None /\ cell_writes' = <<>>

\* C36: a text other than "1".."4" from a user whose day is not set runs no
\* agent and reads and writes no cell of the sheet: its only effect is the
\* reply that asks for the day; a text that is exactly "1".."4" sets the day
\* to that number, with no outside call either; and no text changes the
\* week.
C36_DayGate ==
    [][HandlesText
       => LET u == request'.user
              text == request'.data
              before == StateOf(user_states, u)
              after == StateOf(user_states', u)
          IN /\ after.current_week = before.current_week
             /\ text \in {"1", "2", "3", "4"}
                   => /\ after.current_day \in {Some(d) : d \in 1..4}
                      /\ str(after.current_day[1]) = text
                      /\ NoOutsideCall
             /\ (text \notin {"1", "2", "3", "4"} /\ before.current_day = None)
                   => /\ NoOutsideCall
                      /\ out'.replied = "Please set your workout day first with /setday"
                      /\ after = before
                      /\ \A t \in DOMAIN user_states : user_states'[t] = user_states[t]]_vars

\* C36 witness: a workout text the agent would have understood, from a user
\* without a day, on a connected sheet: the reply asks for the day and
\* nothing was called
C36_Witness ==
    /\ request.op = "handle_message"
    /\ request.data = "press banca 3x10"
    /\ request.log[1] \notin {Raises, Prose, BrokenJson}
    /\ parse_workout_message(request.log[1], NewUserState(request.user)) # None
    /\ worksheet # None
    /\ StateOf(user_states, request.user).current_day = None
    /\ out.replied = "Please set your workout day first with /setday"
    /\ out.prompts = 0

\* the columns of a week: weight, series, notes
WeekColumns(week) == (3 * week)..(3 * week + 2)

\* C37: the log built from a text carries the user's current week and the
\* day the catalog gives the exercise, not the user's current day: for an
\* exercise the agent names by its catalog name and that has a row in its
\* own day block, the log succeeds and every cell written is in that block,
\* on a row of that exercise, in the columns of the user's week, whatever
\* the user's current day.
C37_LogByCatalogDay ==
    [][(/\ HandlesText
        /\ request'.data \notin {"1", "2", "3", "4"}
        /\ request'.num = 0
        /\ StateOf(user_states, request'.user).current_day # None
        /\ ~NothingUnderstood(request'.log[1])
        /\ SameName(request'.log[1].fields.exercise_name) # {}
        /\ worksheet # None)
       => \E i \in SameName(request'.log[1].fields.exercise_name) :
            HasRowInBlock(worksheet, exercises[i].name, exercises[i].day)
            => /\ log_result' = Some(TRUE)
               /\ cell_writes' # <<>>
               /\ \A k \in 1..Len(cell_writes') :
                     /\ cell_writes'[k].row \in BlockOf(worksheet[1], exercises[i].day)
                     /\ NamesExercise(worksheet[1][cell_writes'[k].row], exercises[i].name)
                     /\ cell_writes'[k].col
                           \in WeekColumns(StateOf(user_states, request'.user).current_week)]_vars

\* C37 witness: a user on day 4 and week 2 logs an exercise of day 1: the
\* cells written are on the exercise's row of the day 1 block, in the
\* columns of week 2
C37_Witness ==
    /\ request.op = "handle_message"
    /\ log_result = Some(TRUE)
    /\ user_states[request.user].current_day = Some(4)
    /\ user_states[request.user].current_week = 2
    /\ cell_writes # <<>>
    /\ \A k \in 1..Len(cell_writes) :
          /\ worksheet[1][cell_writes[k].row] = "Press banca"
          /\ cell_writes[k].row \in BlockOf(worksheet[1], 1)
          /\ cell_writes[k].col \in WeekColumns(2)

\* the records a start over this file loads
Persisted(file) == _load_states(file)

\* C38: when the process stops part-way through saving a mutation (the
\* file opened for writing, the state not yet written in full), the next
\* start still loads every record that was in the file before that
\* mutation, with the values it had there.
C38_PersistedSurviveStop ==
    [][request'.op = "stop_during_save"
       => \A t \in DOMAIN Persisted(disk) :
             /\ t \in DOMAIN user_states'
             /\ user_states'[t] = Persisted(disk)[t]]_vars

\* a stop during a save over a file with no record yet loses nothing
C38_HoldsOverEmptyFile ==
    [][(request'.op = "stop_during_save" /\ Persisted(disk) = <<>>)
       => user_states' = <<>>]_vars

\* C39: _find_exercise_row never returns a row whose cell in column A is
\* empty: a blank row inside the block of the day is passed over, so that
\* no workout is written into a row that names no exercise.
C39_NoBlankRowReturned ==
    (request.op = "_find_exercise_row" /\ worksheet # None /\ ret # None)
    => worksheet[1][ret[1]] # ""

\* on the sheets whose blocks hold no blank row the row returned names an
\* exercise
C39_HoldsWithoutBlankRows ==
    (request.op = "_find_exercise_row" /\ worksheet \in {Some(SheetTight), Some(SheetTitled)}
        /\ ret # None)
    => worksheet[1][ret[1]] # ""

\* the display muscle of a catalog exercise
MuscleOf(e) == _map_category_to_muscle(e.category)

\* every total of the volumes of user u moves, from states to after, by
\* delta for the muscle of e and by nothing for the other muscles
TotalsMove(states, after, u, e, delta) ==
    \A muscle \in MuscleNames :
        VolumeOf(StateOf(after, u), muscle)
            = VolumeOf(StateOf(states, u), muscle) + (IF muscle = MuscleOf(e) THEN delta ELSE 0)

\* C40: with default sets of at least 1 in the catalog, one increment on
\* exercise e raises the volume of e's muscle by exactly 1 and leaves the
\* volume of every other muscle as it was; one decrement lowers it by
\* exactly 1 when e has more than one effective set and changes no volume
\* when e has one.
C40_VolumeFollowsAdjustment ==
    [][HandlesCallback
       => \A u \in {request'.user} :
             /\ \A e \in Adjusted(request'.data, "+") :
                   TotalsMove(user_states, user_states', u, e, 1)
             /\ \A e \in Adjusted(request'.data, "-") :
                   TotalsMove(user_states, user_states', u, e,
                              IF Effective(user_states, u, e) > 1 THEN 0 - 1 ELSE 0)]_vars

\* C40 witness: three decrements of an exercise of 3 sets have taken its
\* muscle from its default total to two less, the last one changing nothing
C40_Witness ==
    \E u \in Users :
        /\ \A i \in ExIdx : exercises[i].default_sets >= 1
        /\ nops = 3
        /\ request.op = "handle_overload_callback"
        /\ request.user = u
        /\ request.data = "ovl:s:Press banca:-"
        /\ exercises[1].default_sets = 3
        /\ Effective(user_states, u, exercises[1]) = 1
        /\ VolumeOf(StateOf(user_states, u), "Pecho")
              = VolumeOf(NewUserState(u), "Pecho") - 2
        /\ VolumeOf(StateOf(user_states, u), "Bíceps") = VolumeOf(NewUserState(u), "Bíceps")

=============================================================================
